---- MODULE Spec2Model ----
(***************************************************************************)
(* The silence-gated recorder of duckdb-whisper (src/src/audio_recorder.cpp)*)
(* as a state machine: one AudioRecorder instance, the SDL capture thread   *)
(* that runs AudioCallback, a thread inside RecordUntilSilence, and a       *)
(* client thread that calls StartRecording / StopRecording directly.        *)
(* On top of it the voice-query pipeline (src/src/voice_query):             *)
(* RecordAndGenerateSQLWithTimeout with its calling thread and its          *)
(* std::async thread, HttpClient::Post, and ParseSqlFromJson on bodies held *)
(* as sequences of characters.                                              *)
(*                                                                          *)
(* Units.  Time is in milliseconds.  A float sample s/32768 is held as the  *)
(* integer s.  An amplitude a >= 0 (an RMS) is held as AmpScale * a^2 and a *)
(* threshold t as sign(t) * AmpScale * t^2: the map is strictly increasing, *)
(* so "amplitude > threshold" is decided exactly as the code decides it,    *)
(* without a square root.                                                   *)
(***************************************************************************)
EXTENDS Integers, Sequences, FiniteSets, TLC

\* ------------------------------------------------------------------ bounds
MaxBuf == 2
MaxChunk == 2
NumCaptureDevices == 1

\* sleep_for(std::chrono::milliseconds(50))
PollIntervalMs == 50

\* int16 samples the device may deliver
Samples == {1, -2}
\* how much longer than PollIntervalMs a sleep_for may last
SleepOverruns == {0, 50}
\* arguments of RecordUntilSilence (ms)
MaxDurations == {0, 250}
SilenceDurations == {0, 100}
ThresholdLevels == {1}
\* device ids a caller may pass (-1: system default)
DeviceIds == -1 .. NumCaptureDevices

\* the endpointing scenario: 20 loud polls, then quiet; 0.5 s of silence;
\* a ceiling of 2 s, beyond the polls the scenario needs
Scenario == [loud |-> 20, silence_ms |-> 500, max_ms |-> 2000, level |-> 1]

RECURSIVE Lcm1(_)
Lcm1(n) == IF n <= 1 THEN 1
           ELSE LET m == Lcm1(n - 1)
                IN  CHOOSE k \in m .. (m * n) : k % m = 0 /\ k % n = 0
                      /\ \A j \in m .. (k - 1) : ~(j % m = 0 /\ j % n = 0)
AmpScale == Lcm1(MaxChunk)

ThresholdCode(t) == IF t < 0 THEN -(AmpScale * t * t) ELSE AmpScale * t * t

RECURSIVE SeqsUpTo(_, _)
SeqsUpTo(S, n) == IF n = 0 THEN {<<>>}
                  ELSE LET R == SeqsUpTo(S, n - 1)
                       IN  R \cup {Append(r, s) : r \in {q \in R : Len(q) = n - 1}, s \in S}
Chunks == SeqsUpTo(Samples, MaxChunk)

VARIABLES sdl_initialized_, sdl_open, rec, rus, cli, obs, pipe, json, bind, cap, wcm, tpcm, http, scan, strt, ext, v2s
vars == <<sdl_initialized_, sdl_open, rec, rus, cli, obs, pipe, json, bind, cap, wcm, tpcm, http, scan, strt, ext, v2s>>
\* the state of a ParseSqlFromJson call followed loop iteration by loop
\* iteration (scan), of the threads inside StartRecording (strt), the last
\* ExtractDatabaseDDL call (ext), and the two pipelines run on the same
\* answers of their collaborators (v2s)
further == <<scan, strt, ext, v2s>>
\* the state of the table function (bind), of the capture thread and the
\* StopRecording call followed step by step (cap), of WhisperContextManager
\* (wcm), of a TranscribePCM call (tpcm) and of an HttpClient::Post call
\* (http), which the pipeline never touches
rest == <<bind, cap, wcm, tpcm, http, further>>
exceptBind == <<cap, wcm, tpcm, http, further>>
exceptCap == <<bind, wcm, tpcm, http, further>>
exceptEngine == <<bind, cap, http, further>>
exceptHttp == <<bind, cap, wcm, tpcm, further>>
exceptScan == <<bind, cap, wcm, tpcm, http, strt, ext, v2s>>
exceptStart == <<bind, cap, wcm, tpcm, http, scan, ext, v2s>>
exceptExt == <<bind, cap, wcm, tpcm, http, scan, strt, v2s>>
exceptV2s == <<bind, cap, wcm, tpcm, http, scan, strt, ext>>
\* the state of the voice-query functions, which the recorder never touches
voice == <<pipe, json, rest>>

\* ------------------------------------------------------------ AudioCallback
RECURSIVE SumSquares(_)
SumSquares(chunk) == IF chunk = <<>> THEN 0
                     ELSE Head(chunk) * Head(chunk) + SumSquares(Tail(chunk))

\* sqrt(sum_squares / num_samples), as AmpScale * rms^2
Rms(chunk) == (AmpScale * SumSquares(chunk)) \div Len(chunk)

\* the recorder after one chunk was delivered to the callback
AudioCallback(r, chunk) ==
    IF ~r.recording_ THEN r
    ELSE LET appended == [r EXCEPT !.buffer_ = r.buffer_ \o chunk]
         IN  IF Len(chunk) > 0
             THEN [appended EXCEPT !.current_amplitude_ = Rms(chunk)]
             ELSE appended

\* ----------------------------------------------------------- StartRecording
\* the handle SDL_OpenAudioDevice hands out: the first free one, from 2 up
NewDevice(open) ==
    CHOOSE d \in 2 .. (2 + Cardinality(open)) :
        /\ d \notin {o.id : o \in open}
        /\ \A e \in 2 .. (d - 1) : e \in {o.id : o \in open}

\* SDL_GetAudioDeviceName(device_id, 1): NULL (-1) for an index SDL does not list
DeviceName(device_id) ==
    IF device_id >= 0 /\ device_id < NumCaptureDevices THEN device_id ELSE -1

\* StartRecording without the test of recording_
StartRecording_NoActiveCheck(r, init, open, device_id, error_in, init_ok, open_ok) ==
    IF ~init /\ ~init_ok
    THEN [rec |-> r, init |-> init, open |-> open, ok |-> FALSE,
          error |-> "Failed to initialize SDL"]
    ELSE IF ~open_ok
    THEN [rec |-> r, init |-> TRUE, open |-> open, ok |-> FALSE,
          error |-> "Failed to open audio device"]
    ELSE LET dev == NewDevice(open)
         IN  [rec |-> [r EXCEPT !.device_id_ = dev, !.sample_rate_ = 16000,
                                !.buffer_ = <<>>, !.recording_ = TRUE],
              init |-> TRUE,
              open |-> open \cup {[id |-> dev, name |-> DeviceName(device_id)]},
              ok |-> TRUE, error |-> error_in]

\* StartRecording(device_id, error) on recorder r; init_ok and open_ok are what
\* SDL_Init and SDL_OpenAudioDevice answer.  error_in is the caller's string.
StartRecording(r, init, open, device_id, error_in, init_ok, open_ok) ==
    IF ~init /\ ~init_ok
    THEN [rec |-> r, init |-> init, open |-> open, ok |-> FALSE,
          error |-> "Failed to initialize SDL"]
    ELSE IF r.recording_
    THEN [rec |-> r, init |-> TRUE, open |-> open, ok |-> FALSE,
          error |-> "Already recording"]
    ELSE IF ~open_ok
    THEN [rec |-> r, init |-> TRUE, open |-> open, ok |-> FALSE,
          error |-> "Failed to open audio device"]
    ELSE LET dev == NewDevice(open)
         IN  [rec |-> [r EXCEPT !.device_id_ = dev, !.sample_rate_ = 16000,
                                !.buffer_ = <<>>, !.recording_ = TRUE],
              init |-> TRUE,
              open |-> open \cup {[id |-> dev, name |-> DeviceName(device_id)]},
              ok |-> TRUE, error |-> error_in]

\* the threads that call StartRecording on one recorder
NumStarters == 2
Starters == 1 .. NumStarters

\* a thread's call: device_id, the handle dev it got from SDL_OpenAudioDevice,
\* what it returned
IdleStarter == [pc |-> "idle", device_id |-> -1, dev |-> 0, ret |-> [ok |-> FALSE, error |-> ""]]

\* sdl_mutex_ (0, or the thread that holds it) and the threads.  History:
\* order, the threads in the order they passed line 81.
IdleStrt == [sdl_mutex_ |-> 0, th |-> [t \in Starters |-> IdleStarter], order |-> <<>>]

\* ------------------------------------------------------------ StopRecording
\* StopRecording with the empty-buffer test made before the session is ended
StopRecording_EmptyCheckFirst(r, open, pcm_in, error_in) ==
    IF ~r.recording_
    THEN [rec |-> r, open |-> open, ok |-> FALSE, error |-> "Not recording",
          pcm |-> pcm_in]
    ELSE IF r.buffer_ = <<>>
    THEN [rec |-> r, open |-> open, ok |-> FALSE,
          error |-> "No audio data recorded", pcm |-> pcm_in]
    ELSE [rec |-> [r EXCEPT !.recording_ = FALSE, !.device_id_ = 0, !.buffer_ = <<>>],
          open |-> {o \in open : o.id # r.device_id_},
          ok |-> TRUE, error |-> error_in, pcm |-> r.buffer_]

\* StopRecording with the buffer copied to the caller and kept
StopRecording_Copy(r, open, pcm_in, error_in) ==
    IF ~r.recording_
    THEN [rec |-> r, open |-> open, ok |-> FALSE, error |-> "Not recording",
          pcm |-> pcm_in]
    ELSE LET closed == {o \in open : o.id # r.device_id_}
             halted == [r EXCEPT !.recording_ = FALSE, !.device_id_ = 0]
         IN  IF r.buffer_ = <<>>
             THEN [rec |-> halted, open |-> closed, ok |-> FALSE,
                   error |-> "No audio data recorded", pcm |-> pcm_in]
             ELSE [rec |-> halted, open |-> closed,
                   ok |-> TRUE, error |-> error_in, pcm |-> r.buffer_]

\* StopRecording(pcm_data, error) on recorder r; pcm_in and error_in are the
\* caller's vector and string.
StopRecording(r, open, pcm_in, error_in) ==
    IF ~r.recording_
    THEN [rec |-> r, open |-> open, ok |-> FALSE, error |-> "Not recording",
          pcm |-> pcm_in]
    ELSE LET closed == IF r.device_id_ # 0
                       THEN {o \in open : o.id # r.device_id_} ELSE open
             halted == [r EXCEPT !.recording_ = FALSE, !.device_id_ = 0]
         IN  IF r.buffer_ = <<>>
             THEN [rec |-> halted, open |-> closed, ok |-> FALSE,
                   error |-> "No audio data recorded", pcm |-> pcm_in]
             ELSE [rec |-> [halted EXCEPT !.buffer_ = <<>>], open |-> closed,
                   ok |-> TRUE, error |-> error_in, pcm |-> r.buffer_]

\* ------------------------------------------------------- RecordUntilSilence
\* PollBody with the silence timer started although no poll was loud yet
PollBody_NoSoundGate(l, elapsed, amplitude) ==
    IF elapsed >= l.max_duration_sec
    THEN [l EXCEPT !.brk = "MaxDuration"]
    ELSE IF amplitude > l.silence_threshold
    THEN [l EXCEPT !.had_sound = TRUE, !.silence_start = -1]
    ELSE IF l.silence_start < 0
    THEN [l EXCEPT !.silence_start = elapsed]
    ELSE IF elapsed - l.silence_start >= l.silence_duration_sec
    THEN [l EXCEPT !.brk = "Endpointed"]
    ELSE l

\* PollBody with a loud poll that leaves a running silence timer running
PollBody_NoReset(l, elapsed, amplitude) ==
    IF elapsed >= l.max_duration_sec
    THEN [l EXCEPT !.brk = "MaxDuration"]
    ELSE IF amplitude > l.silence_threshold
    THEN [l EXCEPT !.had_sound = TRUE]
    ELSE IF l.had_sound
    THEN IF l.silence_start < 0
         THEN [l EXCEPT !.silence_start = elapsed]
         ELSE IF elapsed - l.silence_start >= l.silence_duration_sec
         THEN [l EXCEPT !.brk = "Endpointed"]
         ELSE l
    ELSE l

\* PollBody with the silence measured from the start of the recording
PollBody_NoSubtract(l, elapsed, amplitude) ==
    IF elapsed >= l.max_duration_sec
    THEN [l EXCEPT !.brk = "MaxDuration"]
    ELSE IF amplitude > l.silence_threshold
    THEN [l EXCEPT !.had_sound = TRUE, !.silence_start = -1]
    ELSE IF l.had_sound
    THEN IF l.silence_start < 0
         THEN [l EXCEPT !.silence_start = elapsed]
         ELSE IF elapsed >= l.silence_duration_sec
         THEN [l EXCEPT !.brk = "Endpointed"]
         ELSE l
    ELSE l

\* PollBody with the ceiling tested after the amplitude
PollBody_MaxAfter(l, elapsed, amplitude) ==
    IF amplitude > l.silence_threshold
    THEN IF elapsed >= l.max_duration_sec
         THEN [l EXCEPT !.had_sound = TRUE, !.silence_start = -1, !.brk = "MaxDuration"]
         ELSE [l EXCEPT !.had_sound = TRUE, !.silence_start = -1]
    ELSE IF l.had_sound /\ l.silence_start >= 0
            /\ elapsed - l.silence_start >= l.silence_duration_sec
    THEN [l EXCEPT !.brk = "Endpointed"]
    ELSE IF elapsed >= l.max_duration_sec
    THEN [l EXCEPT !.brk = "MaxDuration"]
    ELSE IF l.had_sound /\ l.silence_start < 0
    THEN [l EXCEPT !.silence_start = elapsed]
    ELSE l

\* PollBody with the ceiling tested by > instead of >=
PollBody_StrictMax(l, elapsed, amplitude) ==
    IF elapsed > l.max_duration_sec
    THEN [l EXCEPT !.brk = "MaxDuration"]
    ELSE IF amplitude > l.silence_threshold
    THEN [l EXCEPT !.had_sound = TRUE, !.silence_start = -1]
    ELSE IF l.had_sound
    THEN IF l.silence_start < 0
         THEN [l EXCEPT !.silence_start = elapsed]
         ELSE IF elapsed - l.silence_start >= l.silence_duration_sec
         THEN [l EXCEPT !.brk = "Endpointed"]
         ELSE l
    ELSE l

\* one pass of the loop body after the sleep: l holds the call's arguments and
\* locals, brk says whether and why the pass left the loop
PollBody(l, elapsed, amplitude) ==
    IF elapsed >= l.max_duration_sec
    THEN [l EXCEPT !.brk = "MaxDuration"]
    ELSE IF amplitude > l.silence_threshold
    THEN [l EXCEPT !.had_sound = TRUE, !.silence_start = -1]
    ELSE IF l.had_sound
    THEN IF l.silence_start < 0
         THEN [l EXCEPT !.silence_start = elapsed]
         ELSE IF elapsed - l.silence_start >= l.silence_duration_sec
         THEN [l EXCEPT !.brk = "Endpointed"]
         ELSE l
    ELSE l

\* ------------------------------------------------------------- http_client
\* A std::string is a sequence of characters, a character a one-letter string;
\* "NUL" is the terminator c_str() appends, "BS" the backspace \b.
At(str, ptr) == IF ptr >= 1 /\ ptr <= Len(str) THEN str[ptr] ELSE "NUL"

\* std::isspace in the "C" locale (\v has no TLA+ spelling and is in no input)
IsSpace(c) == c \in {" ", "\t", "\n", "\r", "\f"}

\* SkipWhitespace(ptr, end): positions count from 1, end is Len(str) + 1
RECURSIVE SkipWhitespace(_, _)
SkipWhitespace(str, ptr) ==
    IF ptr <= Len(str) /\ IsSpace(str[ptr]) THEN SkipWhitespace(str, ptr + 1) ELSE ptr

\* the character an escape \c stands for (the switch of ParseJsonStringValue)
Unescaped(c) ==
    CASE c = "b" -> "BS"
      [] c = "f" -> "\f"
      [] c = "n" -> "\n"
      [] c = "r" -> "\r"
      [] c = "t" -> "\t"
      [] OTHER -> c

\* the loop of ParseJsonStringValue, ptr behind the opening quote
RECURSIVE StringBody(_, _, _)
StringBody(str, ptr, result) ==
    IF ptr > Len(str) THEN [val |-> result, ptr |-> ptr]
    ELSE IF str[ptr] = "\"" THEN [val |-> result, ptr |-> ptr + 1]
    ELSE IF str[ptr] = "\\" /\ ptr + 1 <= Len(str)
    THEN LET q == ptr + 1
         IN  IF str[q] = "u"
             THEN IF q + 4 <= Len(str)
                  THEN StringBody(str, q + 5, result)
                  ELSE StringBody(str, q + 1, result)
             ELSE StringBody(str, q + 1, Append(result, Unescaped(str[q])))
    ELSE StringBody(str, ptr + 1, Append(result, str[ptr]))

\* ParseJsonStringValue(ptr, end): the value and where ptr is left
ParseJsonStringValue(str, ptr) ==
    IF ptr > Len(str) \/ str[ptr] # "\"" THEN [val |-> <<>>, ptr |-> ptr]
    ELSE StringBody(str, ptr + 1, <<>>)

\* the loops that skip a nested object or array (lines 276-287, 290-301), from
\* behind its opening bracket with depth 1.  The closing bracket that brings
\* depth to 0 is not stepped over.  At an opening bracket inside, depth++ runs
\* without ptr moving until the int overflows, which is undefined: ub marks it,
\* and then the loop is taken to end with ptr where it stood.
RECURSIVE SkipNested(_, _, _, _, _)
SkipNested(str, ptr, opening, closing, depth) ==
    IF ptr > Len(str) \/ depth <= 0 THEN [ptr |-> ptr, ub |-> FALSE]
    ELSE IF str[ptr] = opening THEN [ptr |-> ptr, ub |-> TRUE]
    ELSE IF str[ptr] = closing THEN SkipNested(str, ptr, opening, closing, depth - 1)
    ELSE IF str[ptr] = "\""
    THEN SkipNested(str, ParseJsonStringValue(str, ptr).ptr, opening, closing, depth)
    ELSE SkipNested(str, ptr + 1, opening, closing, depth)

\* the loop that skips a number, a boolean or null (line 304)
RECURSIVE SkipScalar(_, _)
SkipScalar(str, ptr) ==
    IF ptr <= Len(str) /\ str[ptr] \notin {",", "}"} /\ ~IsSpace(str[ptr])
    THEN SkipScalar(str, ptr + 1) ELSE ptr

\* lines 272-307: the value of a key other than "sql" is skipped
SkipValue(str, ptr) ==
    CASE At(str, ptr) = "\"" -> [ptr |-> ParseJsonStringValue(str, ptr).ptr, ub |-> FALSE]
      [] At(str, ptr) = "{" -> SkipNested(str, ptr + 1, "{", "}", 1)
      [] At(str, ptr) = "[" -> SkipNested(str, ptr + 1, "[", "]", 1)
      [] OTHER -> [ptr |-> SkipScalar(str, ptr), ub |-> FALSE]

SqlKey == <<"s", "q", "l">>

\* the while loop of ParseSqlFromJson (lines 232-309); ub: an undefined step
\* was passed on the way
RECURSIVE FindSql(_, _, _)
FindSql(str, ptr0, ub) ==
    LET ptr == SkipWhitespace(str, ptr0)
    IN  IF ptr0 > Len(str) \/ ptr > Len(str) THEN [val |-> <<>>, ub |-> ub]
        ELSE IF str[ptr] = "}" THEN [val |-> <<>>, ub |-> ub]
        ELSE IF str[ptr] = "," THEN FindSql(str, ptr + 1, ub)
        ELSE IF str[ptr] # "\"" THEN FindSql(str, ptr + 1, ub)
        ELSE LET key == ParseJsonStringValue(str, ptr)
                 colon == SkipWhitespace(str, key.ptr)
                 value == SkipWhitespace(str, colon + 1)
             IN  IF At(str, colon) # ":" THEN FindSql(str, colon, ub)
                 ELSE IF key.val = SqlKey
                 THEN IF At(str, value) = "\""
                      THEN [val |-> ParseJsonStringValue(str, value).val, ub |-> ub]
                      ELSE [val |-> <<>>, ub |-> ub]
                 ELSE LET skipped == SkipValue(str, value)
                      IN  FindSql(str, skipped.ptr, ub \/ skipped.ub)

\* ParseSqlFromJson(json_str): val is what is returned; with ub the call may
\* as well never return
ParseSqlFromJson(json_str) ==
    LET ptr == SkipWhitespace(json_str, 1)
    IN  IF At(json_str, ptr) # "{" THEN [val |-> <<>>, ub |-> FALSE]
        ELSE FindSql(json_str, ptr + 1, FALSE)

\* ---- response bodies the translation service may send
Quoted(chars) == <<"\"">> \o chars \o <<"\"">>

\* fields other than "sql", as they stand in a body: a string, a number, a
\* boolean, null, an array (with a bracket inside a string), an array in an
\* array, an object, an object that has a key "sql" of its own, and a string
\* that reads sql
OtherFields ==
    { Quoted(<<"a">>) \o <<":">> \o Quoted(<<"x">>),
      Quoted(<<"n">>) \o <<":", "1">>,
      Quoted(<<"b">>) \o <<":", "t", "r", "u", "e">>,
      Quoted(<<"z">>) \o <<":", "n", "u", "l", "l">>,
      Quoted(<<"r">>) \o <<":", "[", "1", ",">> \o Quoted(<<"]">>) \o <<"]">>,
      Quoted(<<"r">>) \o <<":", "[", "[", "1", "]", "]">>,
      Quoted(<<"o">>) \o <<":", "{">> \o Quoted(<<"k">>) \o <<":", "1", "}">>,
      Quoted(<<"o">>) \o <<":", "{">> \o Quoted(SqlKey) \o <<":">> \o Quoted(<<"n", "o">>) \o <<"}">>,
      Quoted(<<"a">>) \o <<":">> \o Quoted(SqlKey) }

\* values of the "sql" field: raw as written between the quotes of the body,
\* val the string that JSON text denotes (a"b written a\"b, A written A)
UnicodeA == <<"\\", "u", "0", "0", "4", "1">>
SqlValues ==
    { [raw |-> <<"Q">>, val |-> <<"Q">>],
      [raw |-> <<"a", "\\", "\"", "b">>, val |-> <<"a", "\"", "b">>],
      [raw |-> UnicodeA, val |-> <<"A">>] }

\* { before, "sql": "raw", after }
SqlBody(before, raw, after) ==
    <<"{">> \o (IF before = <<>> THEN <<>> ELSE before \o <<",">>)
            \o Quoted(SqlKey) \o <<":", " ">> \o Quoted(raw)
            \o (IF after = <<>> THEN <<>> ELSE <<",", " ">> \o after) \o <<"}">>

\* {"result": "ok"}
ResultOk == <<"{">> \o Quoted(<<"r", "e", "s", "u", "l", "t">>) \o <<":", " ">> \o Quoted(<<"o", "k">>) \o <<"}">>

\* what a body carries: text is the body, has_sql and sql say what JSON value
\* its field "sql" holds, plain that no \u escape is in that value, before and
\* after the fields around it
JsonInputs ==
    { [text |-> SqlBody(b, v.raw, a), has_sql |-> TRUE, sql |-> v.val,
       plain |-> v.raw # UnicodeA, before |-> b, after |-> a] :
          b \in OtherFields \cup {<<>>}, v \in SqlValues, a \in OtherFields \cup {<<>>} }
    \cup { [text |-> <<"{">> \o f \o <<"}">>, has_sql |-> FALSE, sql |-> <<>>,
            plain |-> TRUE, before |-> f, after |-> <<>>] : f \in OtherFields }
    \cup { [text |-> ResultOk, has_sql |-> FALSE, sql |-> <<>>,
            plain |-> TRUE, before |-> <<>>, after |-> <<>>] }


\* ---- EscapeJsonString and BuildJsonRequest
\* control characters below 0x20 that have no short escape, by their codes:
\* "SOH" is 0x01, "US" is 0x1f
ControlCode(c) == IF c = "SOH" THEN 1 ELSE 31
ControlChars == {"SOH", "US"}

\* what operator<< under std::hex writes for a value 0 .. 15
HexDigit(n) == <<"0", "1", "2", "3", "4", "5", "6", "7", "8", "9", "a", "b", "c", "d", "e", "f">>[n + 1]

\* only the quote is escaped
EscapeChar_QuoteOnly(c) == IF c = "\"" THEN <<"\\", "\"">> ELSE <<c>>

\* lines 111-141: the switch on one character
EscapeChar(c) ==
    CASE c = "\"" -> <<"\\", "\"">>
      [] c = "\\" -> <<"\\", "\\">>
      [] c = "BS" -> <<"\\", "b">>
      [] c = "\f" -> <<"\\", "f">>
      [] c = "\n" -> <<"\\", "n">>
      [] c = "\r" -> <<"\\", "r">>
      [] c = "\t" -> <<"\\", "t">>
      [] c \in ControlChars ->
            <<"\\", "u", "0", "0", HexDigit(ControlCode(c) \div 16), HexDigit(ControlCode(c) % 16)>>
      [] OTHER -> <<c>>

\* EscapeJsonString(str)
RECURSIVE EscapeJsonString(_)
EscapeJsonString(str) ==
    IF str = <<>> THEN <<>> ELSE EscapeChar(Head(str)) \o EscapeJsonString(Tail(str))

\* BuildJsonRequest(ddl, question): {"ddl":"...","question":"..."}
BuildJsonRequest(ddl, question) ==
    <<"{">> \o Quoted(<<"d", "d", "l">>) \o <<":">> \o Quoted(EscapeJsonString(ddl)) \o <<",">>
            \o Quoted(<<"q", "u", "e", "s", "t", "i", "o", "n">>) \o <<":">>
            \o Quoted(EscapeJsonString(question)) \o <<"}">>

\* the strings EscapeJsonString is applied to: up to MaxStr characters
MaxStr == 2
EscChars == {"a", "n", "u", "/", "\"", "\\", "BS", "\f", "\n", "\r", "\t"} \cup ControlChars
EscStrings == SeqsUpTo(EscChars, MaxStr)

\* the body {"sql":"E"} with E = EscapeJsonString(s)
EscapedSqlBody(str) == <<"{">> \o Quoted(SqlKey) \o <<":">> \o Quoted(EscapeJsonString(str)) \o <<"}">>

\* no control character below 0x20 other than \b, \f, \n, \r, \t is in str
NoOtherControl(str) == \A i \in 1 .. Len(str) : str[i] \notin ControlChars

EscapedInputs ==
    { [text |-> EscapedSqlBody(str), has_sql |-> TRUE, sql |-> str,
       plain |-> NoOtherControl(str), before |-> <<>>, after |-> <<>>] : str \in EscStrings }

\* ---- ExtractDatabaseDDL
\* a table as the loops of ExtractDatabaseDDL come to it: whether its
\* database is the system one, the name of its schema, table.internal, what
\* ToSQL returns, and whether the catalog throws when it is read
UserTable == [system |-> FALSE, schema |-> "main", internal |-> FALSE, sql |-> <<"T">>, throws |-> FALSE]
Unreadable == [UserTable EXCEPT !.throws = TRUE]
CatalogTables ==
    { UserTable, Unreadable,
      [UserTable EXCEPT !.sql = <<>>],
      [UserTable EXCEPT !.internal = TRUE],
      [UserTable EXCEPT !.schema = "pg_catalog"],
      [UserTable EXCEPT !.schema = "information_schema"],
      [Unreadable EXCEPT !.system = TRUE] }
Catalogs ==
    {<<>>, <<Unreadable>>, <<UserTable, Unreadable>>, <<UserTable, Unreadable, UserTable>>}
    \cup {<<t>> : t \in CatalogTables} \cup {<<t, UserTable>> : t \in CatalogTables}

\* lines 25-62: the loops from table i on; ddl_stream holds stream.  thrown:
\* an exception leaves ExtractDatabaseDDL.
RECURSIVE ScanTables(_, _, _)
ScanTables(catalog, i, stream) ==
    IF i > Len(catalog) THEN [ddl |-> stream, thrown |-> FALSE]
    ELSE LET t == catalog[i]
         IN  IF t.system \/ t.schema \in {"pg_catalog", "information_schema"}
             THEN ScanTables(catalog, i + 1, stream)
             ELSE IF t.throws THEN [ddl |-> <<>>, thrown |-> FALSE]
             ELSE IF t.internal \/ t.sql = <<>> THEN ScanTables(catalog, i + 1, stream)
             ELSE ScanTables(catalog, i + 1,
                             IF stream = <<>> THEN t.sql ELSE stream \o <<";", " ">> \o t.sql)

\* the exception is not caught
ExtractDatabaseDDL_NoCatch(catalog) ==
    LET r == ScanTables(catalog, 1, <<>>)
    IN  IF \E i \in 1 .. Len(catalog) : catalog[i].throws /\ ~catalog[i].system
        THEN [ddl |-> <<>>, thrown |-> TRUE] ELSE r

\* ExtractDatabaseDDL(context), the catalog of the context being catalog
ExtractDatabaseDDL(catalog) == ScanTables(catalog, 1, <<>>)

IdleExt == [pc |-> "idle", catalog |-> <<>>, ddl |-> <<>>, thrown |-> FALSE]

\* bodies with an object in an object and an array in an array before "sql"
ObjectInObject == Quoted(<<"o">>) \o <<":", "{">> \o Quoted(<<"p">>) \o <<":", "{", "}", "}">>
ArrayInArray == Quoted(<<"r">>) \o <<":", "[", "[", "1", "]", "]">>
NestedBodies == {SqlBody(ObjectInObject, <<"Q">>, <<>>), SqlBody(ArrayInArray, <<"Q">>, <<>>)}

\* the strings ParseSqlFromJson is followed on
ScanInputs == {i.text : i \in JsonInputs} \cup NestedBodies \cup {<<>>, <<" ", "[", "]">>}

\* the int depth of the skipping loops, narrowed to -IntMax - 1 .. IntMax
IntMax == 3

\* a ParseSqlFromJson call: json_str, ptr (from 1; end is Len(json_str) + 1),
\* the loop it is in (pc: "while", "object", "array"; "hang" when it will
\* never leave it), depth, and what it returned (out)
IdleScan == [pc |-> "idle", json_str |-> <<>>, ptr |-> 1, depth |-> 0, out |-> <<>>]

IdleJson == [pc |-> "idle", input |-> [text |-> <<>>, has_sql |-> FALSE, sql |-> <<>>,
                                        plain |-> TRUE, before |-> <<>>, after |-> <<>>],
             out |-> <<>>, ub |-> FALSE]

\* ------------------------------------------------------ voice_query_function
\* config.voice_query_timeout and config.text_to_sql_timeout (seconds)
VoiceQueryTimeouts == {1, 3}
TextToSqlTimeouts == {2, 3}

\* the WhisperConfig fields the pipeline reads
Configs ==
    [voice_query_timeout : VoiceQueryTimeouts, text_to_sql_timeout : TextToSqlTimeouts,
     text_to_sql_url : {"http://localhost:4000/generate-sql"},
     max_duration : MaxDurations, silence_duration : SilenceDurations,
     silence_threshold : ThresholdLevels]

\* the configurations with one setting of the two timeouts
ExecuteConfigs == {c \in Configs : c.voice_query_timeout = 3 /\ c.text_to_sql_timeout = 2}

\* what ExtractDatabaseDDL may return
Schemas == {<<"T">>}

\* an exception (or error string): the fixed words of its message, and the
\* text, the number and the body the code appends to them
Err(kind, text, num, body) == [kind |-> kind, text |-> text, num |-> num, body |-> body]
NoError == Err("none", "", 0, <<>>)

\* what TranscriptionEngine::TranscribePCM may return
TranscribeAnswers ==
    { [success |-> FALSE, full_text |-> <<>>, error |-> "Failed to load model"],
      [success |-> TRUE, full_text |-> <<>>, error |-> ""],
      [success |-> TRUE, full_text |-> <<"h", "i">>, error |-> ""] }

\* the bodies the pipeline is run on: {"result": "ok"}, {"sql": "Q"},
\* {"sql": "a\"b"} and {"o":{"k":1},"sql": "Q"}
NestedObjectField == Quoted(<<"o">>) \o <<":", "{">> \o Quoted(<<"k">>) \o <<":", "1", "}">>
PipelineBodies ==
    {i \in JsonInputs : i.before = <<>> /\ i.after = <<>> /\ i.plain}
    \cup {i \in JsonInputs : /\ i.before = NestedObjectField /\ i.after = <<>>
                             /\ i.has_sql /\ i.sql = <<"Q">>}

\* what libcurl may answer: curl_easy_init, curl_easy_perform, the status code
\* and the body (sent: the modelled body the text came from)
CurlAnswers ==
    { [handle |-> TRUE, res |-> "CURLE_OK", status_code |-> 200, sent |-> b] : b \in PipelineBodies }
    \cup { [handle |-> h, res |-> c, status_code |-> n, sent |-> b] :
              h \in {TRUE}, c \in {"CURLE_OPERATION_TIMEDOUT", "CURLE_COULDNT_CONNECT", "CURLE_OTHER"},
              n \in {0}, b \in {IdleJson.input} }
    \cup { [handle |-> FALSE, res |-> "CURLE_OK", status_code |-> 0, sent |-> IdleJson.input],
           [handle |-> TRUE, res |-> "CURLE_OK", status_code |-> 500,
            sent |-> CHOOSE b \in PipelineBodies : ~b.has_sql] }

\* Post with every status below 400 taken as a success
Post_StatusBelow400(url, timeout_seconds, curl) ==
    IF ~curl.handle
    THEN [success |-> FALSE, body |-> <<>>, status_code |-> 0,
          error |-> Err("Failed to initialize HTTP client", "", 0, <<>>)]
    ELSE IF curl.res # "CURLE_OK"
    THEN [success |-> FALSE, body |-> <<>>, status_code |-> 0,
          error |-> IF curl.res = "CURLE_OPERATION_TIMEDOUT"
                    THEN Err("Request timed out after", "", timeout_seconds, <<>>)
                    ELSE IF curl.res = "CURLE_COULDNT_CONNECT"
                    THEN Err("Cannot connect to text-to-sql proxy at", url, 0, <<>>)
                    ELSE Err("HTTP request failed", "", 0, <<>>)]
    ELSE IF curl.status_code >= 200 /\ curl.status_code < 400
    THEN [success |-> TRUE, body |-> curl.sent.text, status_code |-> curl.status_code,
          error |-> NoError]
    ELSE [success |-> FALSE, body |-> curl.sent.text, status_code |-> curl.status_code,
          error |-> Err("Text-to-SQL proxy error: HTTP", "", curl.status_code,
                        IF curl.sent.text # <<>> THEN curl.sent.text ELSE <<>>)]

\* bodies whose field "sql" is the empty string, a number, null or an array
SqlNotAString(value) == <<"{">> \o Quoted(SqlKey) \o <<":", " ">> \o value \o <<"}">>
EmptyOrOddSqlBodies ==
    { [text |-> SqlBody(<<>>, <<>>, <<>>), has_sql |-> TRUE, sql |-> <<>>,
       plain |-> TRUE, before |-> <<>>, after |-> <<>>] }
    \cup { [text |-> SqlNotAString(v), has_sql |-> FALSE, sql |-> <<>>,
             plain |-> TRUE, before |-> <<>>, after |-> <<>>] :
               v \in {<<"1">>, <<"n", "u", "l", "l">>, <<"[", "1", "]">>} }
\* libcurl delivers such a body with status 200
EmptyOrOddSqlAnswers ==
    { [handle |-> TRUE, res |-> "CURLE_OK", status_code |-> 200, sent |-> b] : b \in EmptyOrOddSqlBodies }

\* HttpClient::Post(url, json_body, timeout_seconds); curl: what libcurl
\* answers.  The body is appended to the error of a status outside 200..299
\* if it is not empty.
Post(url, timeout_seconds, curl) ==
    IF ~curl.handle
    THEN [success |-> FALSE, body |-> <<>>, status_code |-> 0,
          error |-> Err("Failed to initialize HTTP client", "", 0, <<>>)]
    ELSE IF curl.res # "CURLE_OK"
    THEN [success |-> FALSE, body |-> <<>>, status_code |-> 0,
          error |-> IF curl.res = "CURLE_OPERATION_TIMEDOUT"
                    THEN Err("Request timed out after", "", timeout_seconds, <<>>)
                    ELSE IF curl.res = "CURLE_COULDNT_CONNECT"
                    THEN Err("Cannot connect to text-to-sql proxy at", url, 0, <<>>)
                    ELSE Err("HTTP request failed", "", 0, <<>>)]
    ELSE IF curl.status_code >= 200 /\ curl.status_code < 300
    THEN [success |-> TRUE, body |-> curl.sent.text, status_code |-> curl.status_code,
          error |-> NoError]
    ELSE [success |-> FALSE, body |-> curl.sent.text, status_code |-> curl.status_code,
          error |-> Err("Text-to-SQL proxy error: HTTP", "", curl.status_code,
                        IF curl.sent.text # <<>> THEN curl.sent.text ELSE <<>>)]

\* the inputs Post is run on by itself: the url, the timeout, and what
\* libcurl answers (an empty body among the bodies)
PostUrls == {"http://localhost:4000/generate-sql", "http://proxy/sql"}
StatusCodes == {199, 200, 204, 299, 300, 404, 500}
EmptyBody == IdleJson.input
PostAnswers ==
    [handle : BOOLEAN,
     res : {"CURLE_OK", "CURLE_OPERATION_TIMEDOUT", "CURLE_COULDNT_CONNECT", "CURLE_OTHER"},
     status_code : StatusCodes,
     sent : {EmptyBody, [EmptyBody EXCEPT !.text = ResultOk]}]

\* one call of HttpClient::Post: its arguments, what libcurl answered, and
\* the HttpResponse (HttpResponse(): success false, status_code 0)
IdleHttp ==
    [pc |-> "idle", url |-> "", timeout_seconds |-> 0,
     curl |-> [handle |-> FALSE, res |-> "CURLE_OK", status_code |-> 0, sent |-> EmptyBody],
     response |-> [success |-> FALSE, body |-> <<>>, status_code |-> 0, error |-> NoError]]

\* ---- the two pipelines as functions of what their collaborators answer
\* what RecordUntilSilence may answer: ok, error and pcm_data
RecordingAnswers ==
    { [ok |-> FALSE, error |-> "Failed to initialize SDL", pcm |-> <<>>],
      [ok |-> FALSE, error |-> "Failed to open audio device", pcm |-> <<>>],
      [ok |-> FALSE, error |-> "No audio data recorded", pcm |-> <<>>],
      [ok |-> TRUE, error |-> "", pcm |-> <<>>],
      [ok |-> TRUE, error |-> "", pcm |-> <<1>>] }

\* the answers: of RecordUntilSilence, of TranscribePCM, of libcurl to the
\* Post, and whether the thread finished before wait_for gave up
Collaborators ==
    [recording : RecordingAnswers, transcription : TranscribeAnswers, curl : CurlAnswers,
     in_time : BOOLEAN]

\* what an invocation hands to its caller: the query, the transcript (the
\* scalar function has none) and the exception
Outcome(sql, transcription, thrown) == [sql |-> sql, transcription |-> transcription, thrown |-> thrown]

\* voice_to_sql_function.cpp, lines 26-98
PerformVoiceToSql_KeepEmptyQuestion(config, ddl, c) ==
    IF ~c.recording.ok
    THEN Outcome(<<>>, <<>>, Err("Failed to record audio", c.recording.error, 0, <<>>))
    ELSE IF c.recording.pcm = <<>>
    THEN Outcome(<<>>, <<>>, Err("No speech detected", "", 0, <<>>))
    ELSE IF ~c.transcription.success
    THEN Outcome(<<>>, <<>>, Err("Transcription failed", c.transcription.error, 0, <<>>))
    ELSE LET response == Post(config.text_to_sql_url, config.text_to_sql_timeout, c.curl)
             generated_sql == ParseSqlFromJson(response.body).val
         IN  IF ~response.success THEN Outcome(<<>>, <<>>, response.error)
             ELSE IF generated_sql = <<>>
             THEN Outcome(<<>>, <<>>, Err("Text-to-SQL proxy error: No SQL in response",
                                          "", 0, response.body))
             ELSE Outcome(generated_sql, <<>>, NoError)

\* PerformVoiceToSql(config, device_id, ddl): what it returns or throws
PerformVoiceToSql(config, ddl, c) ==
    IF ~c.recording.ok
    THEN Outcome(<<>>, <<>>, Err("Failed to record audio", c.recording.error, 0, <<>>))
    ELSE IF c.recording.pcm = <<>>
    THEN Outcome(<<>>, <<>>, Err("No speech detected", "", 0, <<>>))
    ELSE IF ~c.transcription.success
    THEN Outcome(<<>>, <<>>, Err("Transcription failed", c.transcription.error, 0, <<>>))
    ELSE IF c.transcription.full_text = <<>>
    THEN Outcome(<<>>, <<>>, Err("No speech detected", "", 0, <<>>))
    ELSE LET response == Post(config.text_to_sql_url, config.text_to_sql_timeout, c.curl)
             generated_sql == ParseSqlFromJson(response.body).val
         IN  IF ~response.success THEN Outcome(<<>>, <<>>, response.error)
             ELSE IF generated_sql = <<>>
             THEN Outcome(<<>>, <<>>, Err("Text-to-SQL proxy error: No SQL in response",
                                          "", 0, response.body))
             ELSE Outcome(generated_sql, <<>>, NoError)

\* PerformVoiceToSqlWithTimeout(context, config, device_id), lines 104-141
PerformVoiceToSqlWithTimeout(config, ddl, c) ==
    IF ~c.in_time
    THEN Outcome(<<>>, <<>>, Err("Voice query timed out after", "", config.voice_query_timeout, <<>>))
    ELSE LET r == PerformVoiceToSql(config, ddl, c)
         IN  IF r.thrown # NoError THEN Outcome(<<>>, <<>>, r.thrown)
             ELSE Outcome(r.sql, <<>>, NoError)

\* RecordAndGenerateSQL(config, device_id, ddl, out_sql, out_transcription),
\* voice_query_function.cpp lines 56-126: sql and transcription are the two
\* out parameters as the function leaves them
RecordAndGenerateSQL(config, ddl, c) ==
    IF ~c.recording.ok
    THEN Outcome(<<>>, <<>>, Err("Failed to record audio", c.recording.error, 0, <<>>))
    ELSE IF c.recording.pcm = <<>>
    THEN Outcome(<<>>, <<>>, Err("No speech detected", "", 0, <<>>))
    ELSE IF ~c.transcription.success
    THEN Outcome(<<>>, <<>>, Err("Transcription failed", c.transcription.error, 0, <<>>))
    ELSE LET out_transcription == c.transcription.full_text
             response == Post(config.text_to_sql_url, config.text_to_sql_timeout, c.curl)
             out_sql == ParseSqlFromJson(response.body).val
         IN  IF out_transcription = <<>>
             THEN Outcome(<<>>, out_transcription, Err("No speech detected", "", 0, <<>>))
             ELSE IF ~response.success THEN Outcome(<<>>, out_transcription, response.error)
             ELSE IF out_sql = <<>>
             THEN Outcome(out_sql, out_transcription,
                          Err("Text-to-SQL proxy error: No SQL in response", "", 0, response.body))
             ELSE Outcome(out_sql, out_transcription, NoError)

\* RecordAndGenerateSQLWithTimeout(context, config, device_id, out_sql,
\* out_transcription), lines 133-174
RecordAndGenerateSQLWithTimeout(config, ddl, c) ==
    IF ~c.in_time
    THEN Outcome(<<>>, <<>>, Err("Voice query timed out after", "", config.voice_query_timeout, <<>>))
    ELSE LET r == RecordAndGenerateSQL(config, ddl, c)
         IN  IF r.thrown # NoError THEN Outcome(<<>>, <<>>, r.thrown)
             ELSE Outcome(r.sql, r.transcription, NoError)

\* one run of both pipelines on the same configuration and answers
IdleV2s ==
    [pc |-> "idle",
     config |-> [voice_query_timeout |-> 0, text_to_sql_timeout |-> 0,
                 text_to_sql_url |-> "", max_duration |-> 0,
                 silence_duration |-> 0, silence_threshold |-> 0],
     answers |-> [recording |-> [ok |-> FALSE, error |-> "", pcm |-> <<>>],
                  transcription |-> [success |-> FALSE, full_text |-> <<>>, error |-> ""],
                  curl |-> IdleHttp.curl, in_time |-> FALSE],
     scalar |-> Outcome(<<>>, <<>>, NoError), table |-> Outcome(<<>>, <<>>, NoError)]

\* AudioRecorder::AudioRecorder()
NewRecorder ==
    [device_id_ |-> 0, buffer_ |-> <<>>, recording_ |-> FALSE,
     sample_rate_ |-> 16000, current_amplitude_ |-> 0,
     silence_threshold_ |-> ThresholdCode(1), silence_duration_sec_ |-> 0,
     silence_detected_ |-> FALSE]

\* AudioRecorder::~AudioRecorder(): the SDL devices left open
DestroyRecorder(open, r) ==
    IF r.device_id_ # 0 THEN {o \in open : o.id # r.device_id_} ELSE open

\* one invocation of RecordAndGenerateSQLWithTimeout.  pc: the calling thread,
\* wpc: the std::async thread.  context, log, posted, sent and timed_out are
\* history: the threads that used the ClientContext, the stages run, the schema
\* text put in the request, the body answered, whether wait_for timed out.
IdlePipe ==
    [pc |-> "idle", wpc |-> "none",
     config |-> [voice_query_timeout |-> 0, text_to_sql_timeout |-> 0,
                 text_to_sql_url |-> "", max_duration |-> 0,
                 silence_duration |-> 0, silence_threshold |-> 0],
     device_id |-> -1, ddl |-> <<>>,
     result_sql |-> <<>>, result_transcription |-> <<>>, exception_ptr |-> NoError,
     out_sql |-> <<>>, out_transcription |-> <<>>, thrown |-> NoError,
     record_ret |-> [ok |-> FALSE, error |-> ""],
     pcm_data |-> <<>>, transcription |-> [success |-> FALSE, full_text |-> <<>>, error |-> ""],
     response |-> [success |-> FALSE, body |-> <<>>, status_code |-> 0, error |-> NoError],
     context |-> <<>>, log |-> <<>>, posted |-> <<>>, sent |-> IdleJson.input,
     timed_out |-> FALSE]

\* ------------------------------------------------ the table function: data
\* STANDARD_VECTOR_SIZE of the data engine, and the chunks of one result
StandardVectorSize == 2
MaxResultChunks == 2

\* what Connection::Prepare may answer for the generated query: an error, or
\* the names and types of the columns of its result
ColumnLists ==
    { <<[name |-> "a", type |-> "INTEGER"]>>,
      <<[name |-> "b", type |-> "VARCHAR"], [name |-> "a", type |-> "INTEGER"]>> }
PrepareAnswers ==
    { [error |-> "syntax error", columns |-> <<>>] }
    \cup { [error |-> "", columns |-> c] : c \in ColumnLists }

\* the values of row k of a result with ncols columns
RowValues(k, ncols) == [c \in 1 .. ncols |-> <<k, c>>]

\* the chunks of a result whose chunks have the sizes listed, from row first
RECURSIVE ResultChunks(_, _, _)
ResultChunks(sizes, first, ncols) ==
    IF sizes = <<>> THEN <<>>
    ELSE <<[i \in 1 .. Head(sizes) |-> RowValues(first + i - 1, ncols)]>>
         \o ResultChunks(Tail(sizes), first + Head(sizes), ncols)

\* what Connection::Query may answer for a query with ncols columns: an
\* error, or chunks of 1 .. StandardVectorSize rows each
QueryAnswers(ncols) ==
    { [error |-> "conversion error", chunks |-> <<>>] }
    \cup { [error |-> "", chunks |-> ResultChunks(sizes, 1, ncols)] :
              sizes \in SeqsUpTo(1 .. StandardVectorSize, MaxResultChunks) }

\* all the rows of a sequence of chunks, in order
RECURSIVE Rows(_)
Rows(chunks) == IF chunks = <<>> THEN <<>> ELSE Head(chunks) \o Rows(Tail(chunks))

\* VoiceQueryState()
NewVoiceQueryState ==
    [finished |-> FALSE, query_result |-> FALSE, pending |-> <<>>,
     has_chunk |-> FALSE, current_chunk |-> <<>>, current_row |-> 0]

\* one use of whisper_voice_query / whisper_voice_query_with_sql: the
\* VoiceQueryBindData, the vectors bind fills, the VoiceQueryState, and as
\* history: what Prepare and Query answered, the rows put in output chunks,
\* the number of Query calls and the exception thrown
IdleBind ==
    [pc |-> "idle", include_metadata |-> FALSE,
     generated_sql |-> <<>>, transcription |-> <<>>,
     return_types |-> <<>>, names |-> <<>>, result_types |-> <<>>, result_names |-> <<>>,
     state |-> NewVoiceQueryState,
     prepared |-> [error |-> "", columns |-> <<>>], prepare_calls |-> 0,
     result |-> <<>>, query_calls |-> 0, emitted |-> <<>>, output |-> <<>>,
     thrown |-> NoError]

\* the capture thread inside AudioCallback (cb, chunk, i: the samples pushed)
\* and a client inside StopRecording (stop); paused: the device is paused.
\* History: by is the thread that took the last step, dropped flips when a
\* chunk is dropped, last_len is the length of
\* the last chunk the callback went through, appended the samples pushed since
\* the session started, late whether a sample was pushed after recording_ was
\* cleared, trace the steps StopRecording has taken, ret what it returned.
IdleCap ==
    [cb |-> "idle", chunk |-> <<>>, i |-> 0, stop |-> "idle", paused |-> TRUE,
     by |-> "client", dropped |-> FALSE, last_len |-> -1, appended |-> <<>>, late |-> FALSE,
     trace |-> <<>>, ret |-> [ok |-> FALSE, error |-> "", pcm |-> <<>>]]
\* ------------------------------------- WhisperContextManager: data
\* the threads that call GetContext
NumCallers == 2
Callers == 1 .. NumCallers

\* config.model and config.model_path
ModelNames == {"base.en"}
ModelDirs == {"models"}

\* ModelManager::GetModelFileName and ModelManager::GetModelPath
GetModelFileName(model_name) == <<"ggml-", model_name, ".bin">>
GetModelPath(model_name, base_path) == <<base_path, "/">> \o GetModelFileName(model_name)

\* cache_key = model_path + (use_gpu ? ":gpu" : ":cpu")
CacheKey(model_path, use_gpu) == Append(model_path, IF use_gpu THEN ":gpu" ELSE ":cpu")
ModelPaths == {GetModelPath(n, d) : n \in ModelNames, d \in ModelDirs}
CacheKeys == {CacheKey(m, g) : m \in ModelPaths, g \in BOOLEAN}

\* a shared_ptr<WhisperContextWrapper>: id 0 is nullptr; multilingual is what
\* whisper_is_multilingual answers for the context
NullContext == [id |-> 0, multilingual |-> FALSE]
\* what whisper_init_from_file_with_params may answer
LoadAnswers ==
    { [ok |-> FALSE, multilingual |-> FALSE],
      [ok |-> TRUE, multilingual |-> FALSE],
      [ok |-> TRUE, multilingual |-> TRUE] }

IdleCaller ==
    [pc |-> "idle", model_path |-> <<>>, use_gpu |-> FALSE, cache_key |-> <<>>,
     ret |-> NullContext, error |-> NoError, stale |-> 0]

\* the WhisperContextManager instance (mutex_: 0, or the thread that holds
\* it), g_log_suppressed and the threads inside GetContext.  History: loads,
\* the successful loads per key; handles, the contexts created so far;
\* returned, the non-null contexts handed out per key; cleared, the model
\* paths given to ClearContext and not loaded since (a caller's stale is the
\* context that was cached for its key when it called for such a path).
IdleWcm ==
    [mutex_ |-> 0, contexts_ |-> [k \in CacheKeys |-> NullContext],
     g_log_suppressed |-> FALSE,
     th |-> [t \in Callers |-> IdleCaller],
     loads |-> [k \in CacheKeys |-> 0], handles |-> 0,
     returned |-> [k \in CacheKeys |-> {}], cleared |-> {}]

\* what whisper_full may answer: its return code and the segment texts
SegmentLists == {<<>>, <<"hi">>, <<"hi", "there">>, <<"", "there">>}
WhisperFullAnswers ==
    { [ret |-> -1, segments |-> <<>>] }
    \cup { [ret |-> 0, segments |-> g] : g \in SegmentLists }

\* the arguments of TranscribePCM: pcm_data and the fields of config it reads
PcmInputs == {<<>>, <<1>>}
TranscribeConfigs ==
    [model : ModelNames, model_path : ModelDirs, translate : BOOLEAN, use_gpu : BOOLEAN]

\* one call of TranscribePCM: its arguments and its result; log: the calls it
\* made, in order; ctx: the context it obtained
IdleTpcm ==
    [pc |-> "idle", pcm_data |-> <<>>,
     config |-> [model |-> "base.en", model_path |-> "models", translate |-> FALSE,
                 use_gpu |-> FALSE],
     ctx |-> NullContext, log |-> <<>>,
     result |-> [success |-> FALSE, error |-> NoError, full_text |-> <<>>]]


NoRet == [ok |-> FALSE, error |-> "", pcm |-> <<>>]

IdleRus == [pc |-> "idle", max_duration_sec |-> 0, silence_duration_sec |-> 0,
            silence_threshold |-> 0, elapsed |-> 0, silence_start |-> -1,
            had_sound |-> FALSE, brk |-> "none", ret |-> NoRet]

\* what the run of RecordUntilSilence under way has done so far (history)
IdleRun == [polls |-> 0, exit |-> "none", lastLoudPoll |-> 0, quietSince |-> -1,
            allLoud |-> TRUE, onScenario |-> TRUE,
            stopCalls |-> 0, fresh |-> TRUE,
            start |-> [ok |-> FALSE, error |-> ""], stop |-> NoRet]

Init ==
    /\ sdl_initialized_ = FALSE
    /\ sdl_open = {}
    /\ rec = NewRecorder
    /\ rus = IdleRus
    /\ cli = [seq |-> 0, op |-> "none", arg |-> -1, ret |-> NoRet, prev |-> "none"]
    /\ obs = [used |-> FALSE, delivered |-> <<>>, run |-> IdleRun]
    /\ pipe = IdlePipe
    /\ json = IdleJson
    /\ bind = IdleBind
    /\ cap = IdleCap
    /\ wcm = IdleWcm
    /\ tpcm = IdleTpcm
    /\ http = IdleHttp
    /\ scan = IdleScan
    /\ strt = IdleStrt
    /\ ext = IdleExt
    /\ v2s = IdleV2s

\* the SDL capture thread delivers one chunk
DeliverChunk(chunk) ==
    /\ UNCHANGED voice
    /\ rec.device_id_ # 0
    /\ rec.device_id_ \in {o.id : o \in sdl_open}
    /\ Len(rec.buffer_) + Len(chunk) <= MaxBuf
    /\ rec' = AudioCallback(rec, chunk)
    /\ obs' = [obs EXCEPT !.delivered = IF rec.recording_ THEN @ \o chunk ELSE @]
    /\ UNCHANGED <<sdl_initialized_, sdl_open, rus, cli>>

\* RecordUntilSilence entering its loop whatever StartRecording answered
RUS_Call_IgnoreStartFailure(max_duration_sec, silence_duration_sec, silence_threshold, device_id, init_ok, open_ok) ==
    /\ UNCHANGED voice
    /\ rus.pc = "idle"
    /\ LET s == StartRecording(rec, sdl_initialized_, sdl_open, device_id, "",
                               init_ok, open_ok)
       IN  /\ sdl_initialized_' = s.init
           /\ sdl_open' = s.open
           /\ obs' = [obs EXCEPT !.used = @ \/ s.ok,
                                 !.delivered = IF s.ok THEN <<>> ELSE @,
                                 !.run = [IdleRun EXCEPT !.fresh = ~obs.used,
                                            !.start = [ok |-> s.ok, error |-> s.error]]]
           /\ cli' = cli
           /\ rec' = [s.rec EXCEPT !.silence_threshold_ = silence_threshold,
                                   !.silence_duration_sec_ = silence_duration_sec,
                                   !.silence_detected_ = FALSE]
           /\ rus' = [IdleRus EXCEPT !.pc = "loop",
                        !.max_duration_sec = max_duration_sec,
                        !.silence_duration_sec = silence_duration_sec,
                        !.silence_threshold = silence_threshold]

\* lines 172-182: StartRecording, then the arguments and locals of the loop
RUS_Call(max_duration_sec, silence_duration_sec, silence_threshold, device_id, init_ok, open_ok) ==
    /\ UNCHANGED voice
    /\ rus.pc = "idle"
    /\ LET s == StartRecording(rec, sdl_initialized_, sdl_open, device_id, "",
                               init_ok, open_ok)
           run == [IdleRun EXCEPT !.fresh = ~obs.used,
                                  !.start = [ok |-> s.ok, error |-> s.error]]
       IN  /\ sdl_initialized_' = s.init
           /\ sdl_open' = s.open
           /\ obs' = [obs EXCEPT !.used = @ \/ s.ok,
                                 !.delivered = IF s.ok THEN <<>> ELSE @,
                                 !.run = run]
           /\ cli' = cli
           /\ IF ~s.ok
              THEN /\ rec' = s.rec
                   /\ rus' = [IdleRus EXCEPT !.pc = "done",
                                !.ret = [ok |-> FALSE, error |-> s.error, pcm |-> <<>>]]
              ELSE /\ rec' = [s.rec EXCEPT !.silence_threshold_ = silence_threshold,
                                           !.silence_duration_sec_ = silence_duration_sec,
                                           !.silence_detected_ = FALSE]
                   /\ rus' = [IdleRus EXCEPT !.pc = "loop",
                                !.max_duration_sec = max_duration_sec,
                                !.silence_duration_sec = silence_duration_sec,
                                !.silence_threshold = silence_threshold]

\* line 184: while (recording_)
RUS_LoopCheck ==
    /\ UNCHANGED voice
    /\ rus.pc = "loop"
    /\ IF rec.recording_
       THEN /\ rus' = [rus EXCEPT !.pc = "sleep"]
            /\ obs' = obs
       ELSE /\ rus' = [rus EXCEPT !.pc = "stop"]
            /\ obs' = [obs EXCEPT !.run.exit = "Cancelled"]
    /\ UNCHANGED <<sdl_initialized_, sdl_open, rec, cli>>

\* lines 185-211: the sleep, the clock, and one pass of the loop body
RUS_Poll(overrun) ==
    /\ UNCHANGED voice
    /\ rus.pc = "sleep"
    /\ LET elapsed == rus.elapsed + PollIntervalMs + overrun
           amplitude == rec.current_amplitude_
           l == PollBody(rus, elapsed, amplitude)
           n == obs.run.polls + 1
           loud == amplitude > rus.silence_threshold
       IN  /\ rus' = [l EXCEPT !.elapsed = elapsed,
                               !.pc = IF l.brk = "none" THEN "loop" ELSE "stop"]
           /\ rec' = [rec EXCEPT !.silence_detected_ = @ \/ (l.brk = "Endpointed")]
           /\ obs' = [obs EXCEPT
                        !.run.polls = n,
                        !.run.exit = l.brk,
                        !.run.allLoud = @ /\ loud,
                        !.run.onScenario = @ /\ (loud <=> n <= Scenario.loud),
                        !.run.lastLoudPoll = IF loud THEN n ELSE @,
                        !.run.quietSince =
                            IF loud THEN -1
                            ELSE IF n = obs.run.lastLoudPoll + 1 THEN elapsed ELSE @]
    /\ UNCHANGED <<sdl_initialized_, sdl_open, cli>>

\* RecordUntilSilence calling StopRecording and reporting success regardless
RUS_Stop_IgnoreResult ==
    /\ UNCHANGED voice
    /\ rus.pc = "stop"
    /\ LET s == StopRecording(rec, sdl_open, <<>>, "")
           r == [ok |-> s.ok, error |-> s.error, pcm |-> s.pcm]
       IN  /\ rec' = s.rec
           /\ sdl_open' = s.open
           /\ rus' = [rus EXCEPT !.pc = "done",
                                 !.ret = [ok |-> TRUE, error |-> "", pcm |-> s.pcm]]
           /\ obs' = [obs EXCEPT !.run.stopCalls = @ + 1, !.run.stop = r]
    /\ UNCHANGED <<sdl_initialized_, cli>>

\* line 214: return StopRecording(pcm_data, error)
RUS_Stop ==
    /\ UNCHANGED voice
    /\ rus.pc = "stop"
    /\ LET s == StopRecording(rec, sdl_open, <<>>, "")
           r == [ok |-> s.ok, error |-> s.error, pcm |-> s.pcm]
       IN  /\ rec' = s.rec
           /\ sdl_open' = s.open
           /\ rus' = [rus EXCEPT !.pc = "done", !.ret = r]
           /\ obs' = [obs EXCEPT !.run.stopCalls = @ + 1, !.run.stop = r]
    /\ UNCHANGED <<sdl_initialized_, cli>>

\* the caller has the result; the recorder may be used again
RUS_Return ==
    /\ UNCHANGED voice
    /\ rus.pc = "done"
    /\ rus' = IdleRus
    /\ obs' = [obs EXCEPT !.run = IdleRun]
    /\ UNCHANGED <<sdl_initialized_, sdl_open, rec, cli>>

\* a caller's StartRecording(device_id, error), its result kept in cli
ClientStart(device_id, init_ok, open_ok) ==
    /\ UNCHANGED voice
    /\ LET s == StartRecording(rec, sdl_initialized_, sdl_open, device_id, "",
                               init_ok, open_ok)
       IN  /\ rec' = s.rec
           /\ sdl_initialized_' = s.init
           /\ sdl_open' = s.open
           /\ cli' = [seq |-> 1 - cli.seq, op |-> "StartRecording", arg |-> device_id,
                      ret |-> [ok |-> s.ok, error |-> s.error, pcm |-> <<>>],
                      prev |-> cli.op]
           /\ obs' = [obs EXCEPT !.used = @ \/ s.ok,
                                 !.delivered = IF s.ok THEN <<>> ELSE @]
    /\ UNCHANGED rus

\* a caller's StopRecording(pcm_data, error), its result kept in cli
ClientStop ==
    /\ UNCHANGED voice
    /\ LET s == StopRecording(rec, sdl_open, <<>>, "")
       IN  /\ rec' = s.rec
           /\ sdl_open' = s.open
           /\ cli' = [seq |-> 1 - cli.seq, op |-> "StopRecording", arg |-> -1,
                      ret |-> [ok |-> s.ok, error |-> s.error, pcm |-> s.pcm],
                      prev |-> cli.op]
    /\ UNCHANGED <<sdl_initialized_, rus, obs>>

\* while RecordUntilSilence runs, another thread starts a session on the
\* same recorder (what that thread receives is not followed here)
ExternalStart(device_id, init_ok, open_ok) ==
    /\ UNCHANGED voice
    /\ LET s == StartRecording(rec, sdl_initialized_, sdl_open, device_id, "",
                               init_ok, open_ok)
       IN  /\ rec' = s.rec
           /\ sdl_initialized_' = s.init
           /\ sdl_open' = s.open
           /\ obs' = [obs EXCEPT !.used = @ \/ s.ok,
                                 !.delivered = IF s.ok THEN <<>> ELSE @]
    /\ UNCHANGED <<rus, cli>>

\* while RecordUntilSilence runs, another thread stops the session
ExternalStop ==
    /\ UNCHANGED voice
    /\ LET s == StopRecording(rec, sdl_open, <<>>, "")
       IN  /\ rec' = s.rec
           /\ sdl_open' = s.open
    /\ UNCHANGED <<sdl_initialized_, rus, cli, obs>>

\* what SDL_Init may answer (it is called only while SDL is uninitialized) and
\* what SDL_OpenAudioDevice may answer
InitAnswers == IF sdl_initialized_ THEN {TRUE} ELSE BOOLEAN
OpenAnswers == BOOLEAN

\* ---------------------------------------------------------- specifications
\* StartRecording / StopRecording / AudioCallback as a caller uses them
NextApi ==
    \/ \E chunk \in Chunks : DeliverChunk(chunk)
    \/ \E d \in DeviceIds, i \in InitAnswers, o \in OpenAnswers : ClientStart(d, i, o)
    \/ ClientStop

SpecApi == Init /\ [][NextApi]_vars

\* RecordUntilSilence, the capture thread and a second thread on the recorder
\* (every session here is on the default device)
Next ==
    \/ \E chunk \in Chunks : DeliverChunk(chunk)
    \/ \E m \in MaxDurations, s \in SilenceDurations, t \in ThresholdLevels,
          i \in InitAnswers, o \in OpenAnswers :
          RUS_Call(m, s, ThresholdCode(t), -1, i, o)
    \/ RUS_LoopCheck
    \/ \E overrun \in SleepOverruns : RUS_Poll(overrun)
    \/ RUS_Stop
    \/ RUS_Return
    \/ \E i \in InitAnswers, o \in OpenAnswers : ExternalStart(-1, i, o)
    \/ ExternalStop

Spec == Init /\ [][Next]_vars

\* the thread inside RecordUntilSilence keeps running: sleep_for returns and
\* the thread is scheduled again
FairSpec ==
    /\ Spec
    /\ WF_vars(RUS_LoopCheck)
    /\ WF_vars(\E overrun \in SleepOverruns : RUS_Poll(overrun))
    /\ WF_vars(RUS_Stop)

\* the endpointing scenario: polls exactly PollIntervalMs apart, one caller
NextEndpoint ==
    \/ \E chunk \in Chunks : DeliverChunk(chunk)
    \/ \E i \in InitAnswers, o \in OpenAnswers :
          RUS_Call(Scenario.max_ms, Scenario.silence_ms,
                   ThresholdCode(Scenario.level), -1, i, o)
    \/ RUS_LoopCheck
    \/ RUS_Poll(0)
    \/ RUS_Stop

SpecEndpoint == Init /\ [][NextEndpoint]_vars

\* one thread that calls RecordUntilSilence again and again on the same
\* recorder, and the capture thread
NextReuse ==
    \/ \E chunk \in Chunks : DeliverChunk(chunk)
    \/ \E m \in MaxDurations, d \in SilenceDurations, t \in ThresholdLevels, i \in InitAnswers, o \in OpenAnswers : RUS_Call(m, d, ThresholdCode(t), -1, i, o)
    \/ RUS_LoopCheck
    \/ \E overrun \in SleepOverruns : RUS_Poll(overrun)
    \/ RUS_Stop
    \/ RUS_Return

SpecReuse == Init /\ [][NextReuse]_vars

\* ------------------------------------- StartRecording, statement by statement
\* return from StartRecording: the lock_guard releases sdl_mutex_
StartReturns(c, t, ok, error) ==
    [c EXCEPT !.sdl_mutex_ = IF @ = t THEN 0 ELSE @,
              !.th[t].pc = "done", !.th[t].ret = [ok |-> ok, error |-> error]]

\* a thread calls StartRecording(device_id, error) on the recorder
SR_Call(t, device_id) ==
    /\ strt.th[t].pc = "idle"
    /\ strt' = [strt EXCEPT !.th[t] = [IdleStarter EXCEPT !.pc = "lock", !.device_id = device_id]]
    /\ UNCHANGED <<sdl_initialized_, sdl_open, rec, rus, cli, obs, pipe, json, exceptStart>>

\* the thread goes on without holding sdl_mutex_
SR_Lock_NoMutex(t) ==
    /\ strt.th[t].pc = "lock"
    /\ strt' = [strt EXCEPT !.th[t].pc = "init", !.order = Append(@, t)]
    /\ UNCHANGED <<sdl_initialized_, sdl_open, rec, rus, cli, obs, pipe, json, exceptStart>>

\* line 81: std::lock_guard<std::mutex> lock(sdl_mutex_)
SR_Lock(t) ==
    /\ strt.th[t].pc = "lock"
    /\ strt.sdl_mutex_ = 0
    /\ strt' = [strt EXCEPT !.sdl_mutex_ = t, !.th[t].pc = "init", !.order = Append(@, t)]
    /\ UNCHANGED <<sdl_initialized_, sdl_open, rec, rus, cli, obs, pipe, json, exceptStart>>

\* lines 83-89: SDL_Init if it has not been done
SR_Init(t, init_ok) ==
    /\ strt.th[t].pc = "init"
    /\ IF ~sdl_initialized_ /\ ~init_ok
       THEN /\ strt' = StartReturns(strt, t, FALSE, "Failed to initialize SDL")
            /\ UNCHANGED sdl_initialized_
       ELSE /\ strt' = [strt EXCEPT !.th[t].pc = "check"]
            /\ sdl_initialized_' = TRUE
    /\ UNCHANGED <<sdl_open, rec, rus, cli, obs, pipe, json, exceptStart>>

\* lines 91-94: the test of recording_
SR_Check(t) ==
    /\ strt.th[t].pc = "check"
    /\ strt' = IF rec.recording_ THEN StartReturns(strt, t, FALSE, "Already recording")
               ELSE [strt EXCEPT !.th[t].pc = "open"]
    /\ UNCHANGED <<sdl_initialized_, sdl_open, rec, rus, cli, obs, pipe, json, exceptStart>>

\* lines 96-118: SDL_OpenAudioDevice
SR_Open(t, open_ok) ==
    /\ strt.th[t].pc = "open"
    /\ IF ~open_ok
       THEN /\ strt' = StartReturns(strt, t, FALSE, "Failed to open audio device")
            /\ UNCHANGED sdl_open
       ELSE LET dev == NewDevice(sdl_open)
            IN  /\ strt' = [strt EXCEPT !.th[t].pc = "commit", !.th[t].dev = dev]
                /\ sdl_open' = sdl_open \cup {[id |-> dev, name |-> DeviceName(strt.th[t].device_id)]}
    /\ UNCHANGED <<sdl_initialized_, rec, rus, cli, obs, pipe, json, exceptStart>>

\* lines 120-128: the recorder takes the device and the session is active
SR_Commit(t) ==
    /\ strt.th[t].pc = "commit"
    /\ rec' = [rec EXCEPT !.device_id_ = strt.th[t].dev, !.sample_rate_ = 16000,
                          !.buffer_ = <<>>, !.recording_ = TRUE]
    /\ strt' = StartReturns(strt, t, TRUE, "")
    /\ UNCHANGED <<sdl_initialized_, sdl_open, rus, cli, obs, pipe, json, exceptStart>>

\* both calls have returned; the recorder is destroyed and the threads are
\* given a new, idle one
SR_Again ==
    /\ \A t \in Starters : strt.th[t].pc = "done"
    /\ sdl_open' = DestroyRecorder(sdl_open, rec)
    /\ rec' = NewRecorder
    /\ strt' = IdleStrt
    /\ UNCHANGED <<sdl_initialized_, rus, cli, obs, pipe, json, exceptStart>>

NextStart ==
    \/ \E t \in Starters, d \in DeviceIds : SR_Call(t, d)
    \/ \E t \in Starters : SR_Lock(t)
    \/ \E t \in Starters, init_ok \in BOOLEAN : SR_Init(t, init_ok)
    \/ \E t \in Starters : SR_Check(t)
    \/ \E t \in Starters, open_ok \in BOOLEAN : SR_Open(t, open_ok)
    \/ \E t \in Starters : SR_Commit(t)
    \/ SR_Again

SpecStart == Init /\ [][NextStart]_vars

\* --------------------------- AudioCallback and StopRecording, step by step
\* StartRecording by the client: it runs under sdl_mutex_ and unpauses the
\* device with its last statement, so no callback runs before it has ended
CP_Start(init_ok, open_ok) ==
    /\ cap.stop = "idle"
    /\ LET s == StartRecording(rec, sdl_initialized_, sdl_open, -1, "", init_ok, open_ok)
       IN  /\ rec' = s.rec
           /\ sdl_initialized_' = s.init
           /\ sdl_open' = s.open
           /\ cap' = IF s.ok THEN [IdleCap EXCEPT !.paused = FALSE] ELSE [cap EXCEPT !.by = "client"]
    /\ UNCHANGED <<rus, cli, obs, pipe, json, exceptCap>>

\* the callback entered without the test of recording_
CB_Enter_IgnoreFlag(chunk) ==
    /\ cap.cb = "idle"
    /\ rec.device_id_ \in {o.id : o \in sdl_open}
    /\ ~cap.paused
    /\ Len(rec.buffer_) + Len(chunk) <= MaxBuf
    /\ cap' = [cap EXCEPT !.by = "callback", !.cb = "push", !.chunk = chunk, !.i = 0]
    /\ UNCHANGED <<sdl_initialized_, sdl_open, rec, rus, cli, obs, pipe, json, exceptCap>>

\* lines 56-64: SDL calls AudioCallback with a chunk; it returns at once if
\* recording_ is false
CB_Enter(chunk) ==
    /\ cap.cb = "idle"
    /\ rec.device_id_ \in {o.id : o \in sdl_open}
    /\ ~cap.paused
    /\ Len(rec.buffer_) + Len(chunk) <= MaxBuf
    /\ cap' = IF ~rec.recording_
              THEN [cap EXCEPT !.by = "callback", !.dropped = ~@]
              ELSE [cap EXCEPT !.by = "callback", !.cb = "push", !.chunk = chunk, !.i = 0]
    /\ UNCHANGED <<sdl_initialized_, sdl_open, rec, rus, cli, obs, pipe, json, exceptCap>>

\* lines 67-71: one turn of the loop, buffer_.push_back(sample)
CB_Push ==
    /\ cap.cb = "push"
    /\ cap.i < Len(cap.chunk)
    /\ rec' = [rec EXCEPT !.buffer_ = Append(@, cap.chunk[cap.i + 1])]
    /\ cap' = [cap EXCEPT !.by = "callback", !.i = @ + 1, !.appended = Append(@, cap.chunk[cap.i + 1]),
                          !.late = @ \/ ~rec.recording_]
    /\ UNCHANGED <<sdl_initialized_, sdl_open, rus, cli, obs, pipe, json, exceptCap>>

\* lines 73-77: the loop is over; the RMS is stored if num_samples > 0
CB_Store ==
    /\ cap.cb = "push"
    /\ cap.i = Len(cap.chunk)
    /\ rec' = IF Len(cap.chunk) > 0
              THEN [rec EXCEPT !.current_amplitude_ = Rms(cap.chunk)]
              ELSE rec
    /\ cap' = [cap EXCEPT !.by = "callback", !.cb = "idle", !.chunk = <<>>, !.i = 0,
                          !.last_len = Len(cap.chunk)]
    /\ UNCHANGED <<sdl_initialized_, sdl_open, rus, cli, obs, pipe, json, exceptCap>>

\* lines 132-137: the test of recording_ and recording_ = false
ST_Clear ==
    /\ cap.stop = "idle"
    /\ IF ~rec.recording_
       THEN /\ cap' = [cap EXCEPT !.by = "client", !.ret = [ok |-> FALSE, error |-> "Not recording",
                                          pcm |-> <<>>]]
            /\ UNCHANGED rec
       ELSE /\ rec' = [rec EXCEPT !.recording_ = FALSE]
            /\ cap' = [cap EXCEPT !.by = "client", !.stop = "cleared", !.trace = <<"clear">>]
    /\ UNCHANGED <<sdl_initialized_, sdl_open, rus, cli, obs, pipe, json, exceptCap>>

\* lines 139-140: SDL_PauseAudioDevice(device_id_, 1): no callback is started
\* from now on; one that is running goes on
ST_Pause ==
    /\ cap.stop = "cleared"
    /\ cap' = IF rec.device_id_ # 0
              THEN [cap EXCEPT !.by = "client", !.stop = "paused", !.paused = TRUE,
                               !.trace = Append(@, "pause")]
              ELSE [cap EXCEPT !.by = "client", !.stop = "closed"]
    /\ UNCHANGED <<sdl_initialized_, sdl_open, rec, rus, cli, obs, pipe, json, exceptCap>>

\* lines 141-142: SDL_CloseAudioDevice(device_id_) returns when the capture
\* thread of the device has ended; device_id_ = 0
ST_Close ==
    /\ cap.stop = "paused"
    /\ cap.cb = "idle"
    /\ sdl_open' = {o \in sdl_open : o.id # rec.device_id_}
    /\ rec' = [rec EXCEPT !.device_id_ = 0]
    /\ cap' = [cap EXCEPT !.by = "client", !.stop = "closed", !.trace = Append(@, "close")]
    /\ UNCHANGED <<sdl_initialized_, rus, cli, obs, pipe, json, exceptCap>>

\* lines 145-155: the test of the empty buffer, pcm_data = std::move(buffer_)
ST_Move ==
    /\ cap.stop = "closed"
    /\ IF rec.buffer_ = <<>>
       THEN /\ cap' = [cap EXCEPT !.by = "client", !.stop = "idle", !.trace = Append(@, "move"),
                                  !.ret = [ok |-> FALSE, error |-> "No audio data recorded",
                                           pcm |-> <<>>]]
            /\ UNCHANGED rec
       ELSE /\ cap' = [cap EXCEPT !.by = "client", !.stop = "idle", !.trace = Append(@, "move"),
                                  !.ret = [ok |-> TRUE, error |-> "", pcm |-> rec.buffer_]]
            /\ rec' = [rec EXCEPT !.buffer_ = <<>>]
    /\ UNCHANGED <<sdl_initialized_, sdl_open, rus, cli, obs, pipe, json, exceptCap>>

\* one client that starts and stops sessions, and the capture thread
NextCapture ==
    \/ \E i \in InitAnswers, o \in OpenAnswers : CP_Start(i, o)
    \/ \E chunk \in Chunks : CB_Enter(chunk)
    \/ CB_Push
    \/ CB_Store
    \/ ST_Clear
    \/ ST_Pause
    \/ ST_Close
    \/ ST_Move

SpecCapture == Init /\ [][NextCapture]_vars

\* ------------------------------------------ WhisperContextManager::GetContext
\* lines 59-66: SuppressWhisperLogs, the cache key, the lookup
CachedContext(w, cache_key) == w.contexts_[cache_key]

\* lines 69-82: whisper_init_from_file_with_params(model_path, cparams) has
\* answered load; the manager and what GetContext returns
LoadContext(w, cache_key, model_path, load) ==
    IF ~load.ok
    THEN [w |-> w, ret |-> NullContext,
          error |-> Err("Failed to load whisper model from", "", 0, model_path)]
    ELSE LET wrapper == [id |-> w.handles + 1, multilingual |-> load.multilingual]
         IN  [w |-> [w EXCEPT !.contexts_[cache_key] = wrapper,
                              !.handles = @ + 1,
                              !.loads[cache_key] = @ + 1,
                              !.cleared = @ \ {model_path}],
              ret |-> wrapper, error |-> NoError]

\* lines 53-83 run by a thread that is alone in the manager
GetContext(w, model_path, use_gpu, load) ==
    LET cache_key == CacheKey(model_path, use_gpu)
        v == [w EXCEPT !.g_log_suppressed = TRUE]
        r == IF CachedContext(v, cache_key).id # 0
             THEN [w |-> v, ret |-> CachedContext(v, cache_key), error |-> NoError]
             ELSE LoadContext(v, cache_key, model_path, load)
    IN  [r EXCEPT !.w.returned[cache_key] = @ \cup (IF r.ret.id # 0 THEN {r.ret.id} ELSE {})]

\* a thread calls GetContext(model_path, use_gpu, error)
GC_Call(t, model_path, use_gpu) ==
    /\ wcm.th[t].pc = "idle"
    /\ wcm' = [wcm EXCEPT !.th[t] = [IdleCaller EXCEPT
                   !.pc = "lock", !.model_path = model_path, !.use_gpu = use_gpu,
                   !.stale = IF model_path \in wcm.cleared
                             THEN CachedContext(wcm, CacheKey(model_path, use_gpu)).id
                             ELSE 0]]
    /\ UNCHANGED <<sdl_initialized_, sdl_open, rec, rus, cli, obs, pipe, json, tpcm, exceptEngine>>

\* the thread goes on without holding mutex_
GC_Lock_NoMutex(t) ==
    /\ wcm.th[t].pc = "lock"
    /\ wcm' = [wcm EXCEPT !.th[t].pc = "lookup"]
    /\ UNCHANGED <<sdl_initialized_, sdl_open, rec, rus, cli, obs, pipe, json, tpcm, exceptEngine>>

\* line 55: std::lock_guard<std::mutex> lock(mutex_)
GC_Lock(t) ==
    /\ wcm.th[t].pc = "lock"
    /\ wcm.mutex_ = 0
    /\ wcm' = [wcm EXCEPT !.mutex_ = t, !.th[t].pc = "lookup"]
    /\ UNCHANGED <<sdl_initialized_, sdl_open, rec, rus, cli, obs, pipe, json, tpcm, exceptEngine>>

\* lines 57-67: the lookup; a hit returns the cached context (and unlocks)
GC_Lookup(t) ==
    /\ wcm.th[t].pc = "lookup"
    /\ LET cache_key == CacheKey(wcm.th[t].model_path, wcm.th[t].use_gpu)
           hit == CachedContext(wcm, cache_key)
       IN  wcm' = IF hit.id # 0
                  THEN [wcm EXCEPT !.g_log_suppressed = TRUE,
                                   !.mutex_ = IF @ = t THEN 0 ELSE @,
                                   !.th[t].cache_key = cache_key,
                                   !.th[t].ret = hit, !.th[t].pc = "done",
                                   !.returned[cache_key] = @ \cup {hit.id}]
                  ELSE [wcm EXCEPT !.g_log_suppressed = TRUE,
                                   !.th[t].cache_key = cache_key,
                                   !.th[t].pc = "load"]
    /\ UNCHANGED <<sdl_initialized_, sdl_open, rec, rus, cli, obs, pipe, json, tpcm, exceptEngine>>

\* lines 69-82: the load, the insertion, the return (and the unlock)
GC_Load(t, load) ==
    /\ wcm.th[t].pc = "load"
    /\ LET r == LoadContext(wcm, wcm.th[t].cache_key, wcm.th[t].model_path, load)
       IN  wcm' = [r.w EXCEPT !.mutex_ = IF @ = t THEN 0 ELSE @,
                              !.th[t].ret = r.ret, !.th[t].error = r.error,
                              !.th[t].pc = "done",
                              !.returned[wcm.th[t].cache_key] =
                                  @ \cup (IF r.ret.id # 0 THEN {r.ret.id} ELSE {})]
    /\ UNCHANGED <<sdl_initialized_, sdl_open, rec, rus, cli, obs, pipe, json, tpcm, exceptEngine>>

\* the caller has the context
GC_Return(t) ==
    /\ wcm.th[t].pc = "done"
    /\ wcm' = [wcm EXCEPT !.th[t] = IdleCaller]
    /\ UNCHANGED <<sdl_initialized_, sdl_open, rec, rus, cli, obs, pipe, json, tpcm, exceptEngine>>

NextContext ==
    \/ \E t \in Callers, m \in ModelPaths, g \in BOOLEAN : GC_Call(t, m, g)
    \/ \E t \in Callers : GC_Lock(t)
    \/ \E t \in Callers : GC_Lookup(t)
    \/ \E t \in Callers, load \in LoadAnswers : GC_Load(t, load)
    \/ \E t \in Callers : GC_Return(t)

SpecContext == Init /\ [][NextContext]_vars

\* ---------------------------------------- WhisperContextManager::ClearContext
\* line 87: contexts_.erase(model_path), the map being keyed by cache keys
ClearContext(w, model_path) ==
    [w EXCEPT !.contexts_ = [k \in DOMAIN @ |-> IF k = model_path THEN NullContext ELSE @[k]],
              !.cleared = @ \cup {model_path}]

\* lines 85-88: a thread runs ClearContext(model_path) under mutex_
CC_Clear(model_path) ==
    /\ wcm.mutex_ = 0
    /\ wcm' = ClearContext(wcm, model_path)
    /\ UNCHANGED <<sdl_initialized_, sdl_open, rec, rus, cli, obs, pipe, json, tpcm, exceptEngine>>

NextClear ==
    \/ NextContext
    \/ \E m \in ModelPaths : CC_Clear(m)

SpecClear == Init /\ [][NextClear]_vars

\* ------------------------------------------ TranscriptionEngine::TranscribePCM
\* lines 105-133: full_text built from the segment texts
RECURSIVE FullText(_, _)
FullText(segments, full_text) ==
    IF segments = <<>> THEN full_text
    ELSE LET text == Head(segments)
             sep == IF full_text # <<>> /\ text # "" THEN <<" ">> ELSE <<>>
         IN  FullText(Tail(segments), full_text \o sep \o (IF text = "" THEN <<>> ELSE <<text>>))

\* translation never refused
TranslateRejected_Never(config, ctx) == FALSE

\* line 63: config.translate && !whisper_is_multilingual(ctx)
TranslateRejected(config, ctx) == config.translate /\ ~ctx.multilingual

\* lines 70-137: the parameters, whisper_full and the result; log: the calls
\* made before
RunInference(call, log, full) ==
    IF full.ret # 0
    THEN [call EXCEPT !.log = Append(log, "whisper_full"),
                      !.result.error = Err("Transcription failed with error code", "",
                                           full.ret, <<>>)]
    ELSE [call EXCEPT !.log = Append(log, "whisper_full"),
                      !.result.success = TRUE,
                      !.result.full_text = FullText(full.segments, <<>>)]

\* TranscribePCM(pcm_data, config), one call; load and full: what
\* whisper_init_from_file_with_params and whisper_full answer if called
TranscribePCM(pcm_data, config, load, full) ==
    /\ tpcm.pc = "idle"
    /\ wcm.mutex_ = 0
    /\ LET model_path == GetModelPath(config.model, config.model_path)
           g == GetContext(wcm, model_path, config.use_gpu, load)
           call == [IdleTpcm EXCEPT !.pc = "done", !.pcm_data = pcm_data, !.config = config]
           asked == IF config.translate
                    THEN <<"GetContext", "whisper_is_multilingual">>
                    ELSE <<"GetContext">>
       IN  IF pcm_data = <<>>
           THEN /\ tpcm' = [call EXCEPT !.result.error = Err("Empty audio data", "", 0, <<>>)]
                /\ UNCHANGED wcm
           ELSE /\ wcm' = g.w
                /\ tpcm' = IF g.ret.id = 0
                           THEN [call EXCEPT !.log = <<"GetContext">>,
                                             !.result.error =
                                                 IF g.error = NoError
                                                 THEN Err("Failed to load model", "", 0, <<>>)
                                                 ELSE g.error]
                           ELSE IF TranslateRejected(config, g.ret)
                           THEN [call EXCEPT !.log = asked, !.ctx = g.ret,
                                             !.result.error =
                                                 Err("Translation requires a multilingual model",
                                                     "", 0, <<>>)]
                           ELSE RunInference([call EXCEPT !.ctx = g.ret], asked, full)
    /\ UNCHANGED <<sdl_initialized_, sdl_open, rec, rus, cli, obs, pipe, json, exceptEngine>>

\* the caller has the TranscriptionResult
TP_Return ==
    /\ tpcm.pc = "done"
    /\ tpcm' = IdleTpcm
    /\ UNCHANGED <<sdl_initialized_, sdl_open, rec, rus, cli, obs, pipe, json, wcm, exceptEngine>>

NextTranscribe ==
    \/ \E pcm_data \in PcmInputs, config \in TranscribeConfigs, load \in LoadAnswers, full \in WhisperFullAnswers : TranscribePCM(pcm_data, config, load, full)
    \/ TP_Return

SpecTranscribe == Init /\ [][NextTranscribe]_vars

\* ------------------------------------------ RecordAndGenerateSQLWithTimeout
\* lines 136-144: ExtractDatabaseDDL(context) on the calling thread
PL_ExtractSchema(config, device_id, schema) ==
    /\ pipe.pc = "idle"
    /\ pipe' = [IdlePipe EXCEPT !.pc = "launch", !.config = config,
                                !.device_id = device_id, !.ddl = schema,
                                !.context = Append(@, "caller")]
    /\ UNCHANGED <<sdl_initialized_, sdl_open, rec, rus, cli, obs, json, rest>>

\* the thread launched although the schema was not extracted yet
PL_Launch_Early ==
    /\ pipe.pc \in {"idle", "launch"}
    /\ pipe' = [pipe EXCEPT !.pc = "wait", !.wpc = "begin",
                            !.result_sql = <<>>, !.result_transcription = <<>>,
                            !.exception_ptr = NoError]
    /\ UNCHANGED <<sdl_initialized_, sdl_open, rec, rus, cli, obs, json, rest>>

\* lines 147-157: the locals and std::async(std::launch::async, ...)
PL_Launch ==
    /\ pipe.pc = "launch"
    /\ pipe' = [pipe EXCEPT !.pc = "wait", !.wpc = "begin",
                            !.result_sql = <<>>, !.result_transcription = <<>>,
                            !.exception_ptr = NoError]
    /\ UNCHANGED <<sdl_initialized_, sdl_open, rec, rus, cli, obs, json, rest>>

\* the timeout exception naming the timeout of the translation request
PL_Timeout_NamesRequestTimeout ==
    /\ pipe.pc = "wait"
    /\ pipe.wpc # "finished"
    /\ pipe' = [pipe EXCEPT !.pc = "unwind", !.timed_out = TRUE,
                            !.thrown = Err("Voice query timed out after", "",
                                           pipe.config.text_to_sql_timeout, <<>>)]
    /\ UNCHANGED <<sdl_initialized_, sdl_open, rec, rus, cli, obs, json, rest>>

\* lines 160-163: wait_for returned timeout, the exception is thrown
PL_Timeout ==
    /\ pipe.pc = "wait"
    /\ pipe.wpc # "finished"
    /\ pipe' = [pipe EXCEPT !.pc = "unwind", !.timed_out = TRUE,
                            !.thrown = Err("Voice query timed out after", "",
                                           pipe.config.voice_query_timeout, <<>>)]
    /\ UNCHANGED <<sdl_initialized_, sdl_open, rec, rus, cli, obs, json, rest>>

\* the timeout exception leaves the function without waiting for the thread
PL_Unwind_Detached ==
    /\ pipe.pc = "unwind"
    /\ pipe' = [pipe EXCEPT !.pc = "done"]
    /\ UNCHANGED <<sdl_initialized_, sdl_open, rec, rus, cli, obs, json, rest>>

\* the timeout exception leaves the function with what the thread produced
PL_Unwind_DeliverWorker ==
    /\ pipe.pc = "unwind"
    /\ pipe.wpc = "finished"
    /\ pipe' = [pipe EXCEPT !.pc = "done", !.thrown = pipe.exception_ptr,
                            !.out_sql = pipe.result_sql,
                            !.out_transcription = pipe.result_transcription]
    /\ UNCHANGED <<sdl_initialized_, sdl_open, rec, rus, cli, obs, json, rest>>

\* the exception unwinds the frame: the destructor of the future that
\* std::async returned blocks until the thread has finished; out_sql and
\* out_transcription are not assigned
PL_Unwind ==
    /\ pipe.pc = "unwind"
    /\ pipe.wpc = "finished"
    /\ pipe' = [pipe EXCEPT !.pc = "done"]
    /\ UNCHANGED <<sdl_initialized_, sdl_open, rec, rus, cli, obs, json, rest>>

\* the results handed to the caller before the exception is rethrown
PL_Ready_AssignBeforeRethrow ==
    /\ pipe.pc = "wait"
    /\ pipe.wpc = "finished"
    /\ pipe' = IF pipe.exception_ptr # NoError
               THEN [pipe EXCEPT !.pc = "done", !.thrown = pipe.exception_ptr,
                                 !.out_sql = pipe.result_sql,
                                 !.out_transcription = pipe.result_transcription]
               ELSE [pipe EXCEPT !.pc = "done", !.out_sql = pipe.result_sql,
                                 !.out_transcription = pipe.result_transcription]
    /\ UNCHANGED <<sdl_initialized_, sdl_open, rec, rus, cli, obs, json, rest>>

\* lines 160, 166-173: wait_for returned ready
PL_Ready ==
    /\ pipe.pc = "wait"
    /\ pipe.wpc = "finished"
    /\ pipe' = IF pipe.exception_ptr # NoError
               THEN [pipe EXCEPT !.pc = "done", !.thrown = pipe.exception_ptr]
               ELSE [pipe EXCEPT !.pc = "done", !.out_sql = pipe.result_sql,
                                 !.out_transcription = pipe.result_transcription]
    /\ UNCHANGED <<sdl_initialized_, sdl_open, rec, rus, cli, obs, json, rest>>

\* the caller has the outcome
PL_Return ==
    /\ pipe.pc = "done"
    /\ pipe' = IdlePipe
    /\ UNCHANGED <<sdl_initialized_, sdl_open, rec, rus, cli, obs, json, rest>>

\* line 140: ExtractDatabaseDDL(context) returns or throws
DX_Extract(catalog) ==
    /\ pipe.pc = "idle"
    /\ LET r == ExtractDatabaseDDL(catalog)
       IN  ext' = [pc |-> "done", catalog |-> catalog, ddl |-> r.ddl, thrown |-> r.thrown]
    /\ UNCHANGED <<sdl_initialized_, sdl_open, rec, rus, cli, obs, pipe, json, exceptExt>>

\* ---------------------------------------- RecordAndGenerateSQL, the thread
\* a step of the thread ends in p; if the function is left there (return or
\* throw), the recorder is destroyed
WorkerStep(p) ==
    /\ pipe' = p
    /\ IF p.wpc = "finished"
       THEN /\ sdl_open' = DestroyRecorder(sdl_open, rec)
            /\ rec' = NewRecorder
       ELSE UNCHANGED <<sdl_open, rec>>

\* catch (...) { exception_ptr = std::current_exception(); }
Throw(p, e) == [p EXCEPT !.wpc = "finished", !.exception_ptr = e]

\* lines 59-61: AudioRecorder recorder
PW_Begin ==
    /\ pipe.wpc = "begin"
    /\ pipe' = [pipe EXCEPT !.wpc = "record"]
    /\ rec' = NewRecorder
    /\ obs' = [used |-> FALSE, delivered |-> <<>>, run |-> IdleRun]
    /\ UNCHANGED <<sdl_initialized_, sdl_open, rus, cli, json, rest>>

\* line 68: recorder.RecordUntilSilence(...) is entered
PW_Record(init_ok, open_ok) ==
    /\ pipe.wpc = "record"
    /\ RUS_Call(pipe.config.max_duration, pipe.config.silence_duration,
                ThresholdCode(pipe.config.silence_threshold), pipe.device_id,
                init_ok, open_ok)

\* lines 68-79: RecordUntilSilence has returned
PW_Recorded ==
    /\ pipe.wpc = "record"
    /\ rus.pc = "done"
    /\ LET p == [pipe EXCEPT !.log = Append(@, "record"), !.pcm_data = rus.ret.pcm,
                             !.record_ret = [ok |-> rus.ret.ok, error |-> rus.ret.error]]
       IN  WorkerStep(IF ~rus.ret.ok
                      THEN Throw(p, Err("Failed to record audio", rus.ret.error, 0, <<>>))
                      ELSE IF rus.ret.pcm = <<>>
                      THEN Throw(p, Err("No speech detected", "", 0, <<>>))
                      ELSE [p EXCEPT !.wpc = "transcribe"])
    /\ rus' = IdleRus
    /\ obs' = [used |-> FALSE, delivered |-> <<>>, run |-> IdleRun]
    /\ UNCHANGED <<sdl_initialized_, cli, json, rest>>

\* the thread going on to the request after a failed transcription
PW_Transcribe_ContinueOnFailure(answer) ==
    /\ pipe.wpc = "transcribe"
    /\ LET p == [pipe EXCEPT !.log = Append(@, "transcribe"), !.transcription = answer]
       IN  WorkerStep(IF answer.success /\ answer.full_text = <<>>
                      THEN Throw([p EXCEPT !.result_transcription = answer.full_text],
                                 Err("No speech detected", "", 0, <<>>))
                      ELSE [p EXCEPT !.result_transcription = answer.full_text,
                                     !.wpc = "post"])
    /\ UNCHANGED <<sdl_initialized_, rus, cli, obs, json, rest>>

\* the thread going on to the request with an empty transcript
PW_Transcribe_KeepEmptyTranscript(answer) ==
    /\ pipe.wpc = "transcribe"
    /\ LET p == [pipe EXCEPT !.log = Append(@, "transcribe"), !.transcription = answer]
       IN  WorkerStep(IF ~answer.success
                      THEN Throw(p, Err("Transcription failed", answer.error, 0, <<>>))
                      ELSE [p EXCEPT !.result_transcription = answer.full_text,
                                     !.wpc = "post"])
    /\ UNCHANGED <<sdl_initialized_, rus, cli, obs, json, rest>>

\* lines 86-95: TranscribePCM and its result
PW_Transcribe(answer) ==
    /\ pipe.wpc = "transcribe"
    /\ LET p == [pipe EXCEPT !.log = Append(@, "transcribe"), !.transcription = answer]
       IN  WorkerStep(IF ~answer.success
                      THEN Throw(p, Err("Transcription failed", answer.error, 0, <<>>))
                      ELSE IF answer.full_text = <<>>
                      THEN Throw([p EXCEPT !.result_transcription = answer.full_text],
                                 Err("No speech detected", "", 0, <<>>))
                      ELSE [p EXCEPT !.result_transcription = answer.full_text,
                                     !.wpc = "post"])
    /\ UNCHANGED <<sdl_initialized_, rus, cli, obs, json, rest>>

\* lines 104-119: the request is built from ddl and the transcript and posted
PW_Post(curl) ==
    /\ pipe.wpc = "post"
    /\ LET response == Post(pipe.config.text_to_sql_url, pipe.config.text_to_sql_timeout, curl)
           p == [pipe EXCEPT !.log = Append(@, "post"), !.posted = pipe.ddl,
                             !.response = response, !.sent = curl.sent]
       IN  WorkerStep(IF ~response.success
                      THEN Throw(p, response.error)
                      ELSE [p EXCEPT !.wpc = "parse"])
    /\ UNCHANGED <<sdl_initialized_, rus, cli, obs, json, rest>>

\* the parsed query returned without the test for an empty one
PW_Parse_NoEmptyCheck ==
    /\ pipe.wpc = "parse"
    /\ LET out_sql == ParseSqlFromJson(pipe.response.body).val
           p == [pipe EXCEPT !.log = Append(@, "parse"), !.result_sql = out_sql]
       IN  WorkerStep([p EXCEPT !.wpc = "finished"])
    /\ UNCHANGED <<sdl_initialized_, rus, cli, obs, json, rest>>

\* lines 122-127: ParseSqlFromJson(response.body) and the test of its result
PW_Parse ==
    /\ pipe.wpc = "parse"
    /\ LET out_sql == ParseSqlFromJson(pipe.response.body).val
           p == [pipe EXCEPT !.log = Append(@, "parse"), !.result_sql = out_sql]
       IN  WorkerStep(IF out_sql = <<>>
                      THEN Throw(p, Err("Text-to-SQL proxy error: No SQL in response",
                                        "", 0, pipe.response.body))
                      ELSE [p EXCEPT !.wpc = "finished"])
    /\ UNCHANGED <<sdl_initialized_, rus, cli, obs, json, rest>>

\* one invocation after the other, each with its own recorder and thread
NextPipeline ==
    \/ \E config \in Configs, device_id \in DeviceIds, schema \in Schemas :
          PL_ExtractSchema(config, device_id, schema)
    \/ PL_Launch
    \/ PL_Timeout
    \/ PL_Unwind
    \/ PL_Ready
    \/ PL_Return
    \/ PW_Begin
    \/ \E i \in InitAnswers, o \in OpenAnswers : PW_Record(i, o)
    \/ \E chunk \in Chunks : DeliverChunk(chunk)
    \/ RUS_LoopCheck
    \/ \E overrun \in SleepOverruns : RUS_Poll(overrun)
    \/ RUS_Stop
    \/ PW_Recorded
    \/ \E answer \in TranscribeAnswers : PW_Transcribe(answer)
    \/ \E curl \in CurlAnswers : PW_Post(curl)
    \/ PW_Parse

SpecPipeline == Init /\ [][NextPipeline]_vars

\* invocations on the default device, the schema text being what
\* ExtractDatabaseDDL made of the catalog
NextExtract ==
    \/ \E catalog \in Catalogs : DX_Extract(catalog)
    \/ /\ ext.pc = "done" /\ ~ext.thrown
       /\ \E config \in ExecuteConfigs : PL_ExtractSchema(config, -1, ext.ddl)
    \/ PL_Launch
    \/ PL_Timeout
    \/ PL_Unwind
    \/ PL_Ready
    \/ PL_Return
    \/ PW_Begin
    \/ \E i \in InitAnswers, o \in OpenAnswers : PW_Record(i, o)
    \/ \E chunk \in Chunks : DeliverChunk(chunk)
    \/ RUS_LoopCheck
    \/ \E overrun \in SleepOverruns : RUS_Poll(overrun)
    \/ RUS_Stop
    \/ PW_Recorded
    \/ \E answer \in TranscribeAnswers : PW_Transcribe(answer)
    \/ \E curl \in CurlAnswers : PW_Post(curl)
    \/ PW_Parse

SpecExtract == Init /\ [][NextExtract]_vars

\* invocations on the default device that may be answered a body whose
\* "sql" is empty or not a string
NextEmptySql ==
    \/ \E config \in ExecuteConfigs, schema \in Schemas : PL_ExtractSchema(config, -1, schema)
    \/ PL_Launch
    \/ PL_Timeout
    \/ PL_Unwind
    \/ PL_Ready
    \/ PL_Return
    \/ PW_Begin
    \/ \E i \in InitAnswers, o \in OpenAnswers : PW_Record(i, o)
    \/ \E chunk \in Chunks : DeliverChunk(chunk)
    \/ RUS_LoopCheck
    \/ \E overrun \in SleepOverruns : RUS_Poll(overrun)
    \/ RUS_Stop
    \/ PW_Recorded
    \/ \E answer \in TranscribeAnswers : PW_Transcribe(answer)
    \/ \E curl \in CurlAnswers \cup EmptyOrOddSqlAnswers : PW_Post(curl)
    \/ PW_Parse

SpecEmptySql == Init /\ [][NextEmptySql]_vars

\* ------------------------ whisper_voice_to_sql beside whisper_voice_query
\* both pipelines are run with the same configuration, schema and answers
VS_Run(config, schema, c) ==
    /\ v2s.pc = "idle"
    /\ v2s' = [pc |-> "done", config |-> config, answers |-> c,
               scalar |-> PerformVoiceToSqlWithTimeout(config, schema, c),
               table |-> RecordAndGenerateSQLWithTimeout(config, schema, c)]
    /\ UNCHANGED <<sdl_initialized_, sdl_open, rec, rus, cli, obs, pipe, json, exceptV2s>>

VS_Return ==
    /\ v2s.pc = "done"
    /\ v2s' = IdleV2s
    /\ UNCHANGED <<sdl_initialized_, sdl_open, rec, rus, cli, obs, pipe, json, exceptV2s>>

NextBoth ==
    \/ \E config \in Configs, schema \in Schemas, c \in Collaborators : VS_Run(config, schema, c)
    \/ VS_Return

SpecBoth == Init /\ [][NextBoth]_vars

\* ------------------------------------------------- ParseSqlFromJson, called
\* a response body reaches the caller of ParseSqlFromJson
JS_Call(input) ==
    /\ json.pc = "idle"
    /\ json' = [IdleJson EXCEPT !.pc = "called", !.input = input]
    /\ UNCHANGED <<sdl_initialized_, sdl_open, rec, rus, cli, obs, pipe, rest>>

\* out_sql = ParseSqlFromJson(response.body)
JS_Parse ==
    /\ json.pc = "called"
    /\ LET r == ParseSqlFromJson(json.input.text)
       IN  json' = [json EXCEPT !.pc = "done", !.out = r.val, !.ub = r.ub]
    /\ UNCHANGED <<sdl_initialized_, sdl_open, rec, rus, cli, obs, pipe, rest>>

JS_Return ==
    /\ json.pc = "done"
    /\ json' = IdleJson
    /\ UNCHANGED <<sdl_initialized_, sdl_open, rec, rus, cli, obs, pipe, rest>>

NextJson ==
    \/ \E input \in JsonInputs : JS_Call(input)
    \/ JS_Parse
    \/ JS_Return

SpecJson == Init /\ [][NextJson]_vars

\* ParseSqlFromJson called on {"sql":"E"}, E from EscapeJsonString
NextEscape ==
    \/ \E input \in EscapedInputs : JS_Call(input)
    \/ JS_Parse
    \/ JS_Return

SpecEscape == Init /\ [][NextEscape]_vars

\* ------------------------------------- ParseSqlFromJson, loop by loop
\* the call has returned result
Returned(c, result) == [c EXCEPT !.pc = "done", !.out = result]

\* the end of a pass of the while loop of line 232 with ptr at p: the
\* condition ptr < end is evaluated again
WhileAgain(c, p) ==
    IF p > Len(c.json_str) THEN Returned([c EXCEPT !.ptr = p], <<>>)
    ELSE [c EXCEPT !.pc = "while", !.ptr = p]

\* the end of a pass of a skipping loop (lines 278, 292) with ptr at p and
\* depth d: the condition ptr < end && depth > 0 is evaluated again, and
\* when it fails the pass of the while loop around it ends
SkipAgain(c, p, d) ==
    IF p > Len(c.json_str) \/ d <= 0 THEN WhileAgain([c EXCEPT !.depth = d], p)
    ELSE [c EXCEPT !.ptr = p, !.depth = d]

\* lines 221-232: to the opening brace and the first test of ptr < end
SC_Call(json_str) ==
    /\ scan.pc = "idle"
    /\ LET c == [IdleScan EXCEPT !.json_str = json_str]
           ptr == SkipWhitespace(json_str, 1)
       IN  scan' = IF At(json_str, ptr) # "{" THEN Returned([c EXCEPT !.ptr = ptr], <<>>)
                   ELSE WhileAgain(c, ptr + 1)
    /\ UNCHANGED <<sdl_initialized_, sdl_open, rec, rus, cli, obs, pipe, json, exceptScan>>

\* lines 233-308: one pass of the while loop, up to the loop that skips a
\* nested value
SC_While ==
    /\ scan.pc = "while"
    /\ LET str == scan.json_str
           ptr == SkipWhitespace(str, scan.ptr)
           key == ParseJsonStringValue(str, ptr)
           colon == SkipWhitespace(str, key.ptr)
           value == SkipWhitespace(str, colon + 1)
       IN  scan' =
             IF ptr > Len(str) \/ str[ptr] = "}" THEN Returned([scan EXCEPT !.ptr = ptr], <<>>)
             ELSE IF str[ptr] = "," \/ str[ptr] # "\"" THEN WhileAgain(scan, ptr + 1)
             ELSE IF At(str, colon) # ":" THEN WhileAgain(scan, colon)
             ELSE IF key.val = SqlKey
             THEN Returned([scan EXCEPT !.ptr = value],
                           IF At(str, value) = "\"" THEN ParseJsonStringValue(str, value).val
                           ELSE <<>>)
             ELSE IF At(str, value) = "\""
             THEN WhileAgain(scan, ParseJsonStringValue(str, value).ptr)
             ELSE IF At(str, value) = "{"
             THEN SkipAgain([scan EXCEPT !.pc = "object"], value + 1, 1)
             ELSE IF At(str, value) = "["
             THEN SkipAgain([scan EXCEPT !.pc = "array"], value + 1, 1)
             ELSE WhileAgain(scan, SkipScalar(str, value))
    /\ UNCHANGED <<sdl_initialized_, sdl_open, rec, rus, cli, obs, pipe, json, exceptScan>>

\* lines 278-287 and 292-301: one pass of the loop that skips a nested
\* object or array.  depth++ at INT_MAX is undefined: overflow is what the
\* build makes of it, a wrap to INT_MIN or a loop that is never left.
SC_Skip(overflow) ==
    /\ scan.pc \in {"object", "array"}
    /\ LET str == scan.json_str
           ptr == scan.ptr
           opening == IF scan.pc = "object" THEN "{" ELSE "["
           closing == IF scan.pc = "object" THEN "}" ELSE "]"
       IN  scan' =
             IF str[ptr] = opening
             THEN IF scan.depth < IntMax THEN SkipAgain(scan, ptr, scan.depth + 1)
                  ELSE IF overflow = "wrap" THEN SkipAgain(scan, ptr, -IntMax - 1)
                  ELSE [scan EXCEPT !.pc = "hang"]
             ELSE IF str[ptr] = closing THEN SkipAgain(scan, ptr, scan.depth - 1)
             ELSE IF str[ptr] = "\"" THEN SkipAgain(scan, ParseJsonStringValue(str, ptr).ptr, scan.depth)
             ELSE SkipAgain(scan, ptr + 1, scan.depth)
    /\ UNCHANGED <<sdl_initialized_, sdl_open, rec, rus, cli, obs, pipe, json, exceptScan>>

\* the caller has the result
SC_Return ==
    /\ scan.pc = "done"
    /\ scan' = IdleScan
    /\ UNCHANGED <<sdl_initialized_, sdl_open, rec, rus, cli, obs, pipe, json, exceptScan>>

NextScan ==
    \/ \E json_str \in ScanInputs : SC_Call(json_str)
    \/ SC_While
    \/ \E overflow \in {"wrap", "hang"} : SC_Skip(overflow)
    \/ SC_Return

SpecScan == Init /\ [][NextScan]_vars

\* ------------------------------------------------------ the table function
Types(columns) == [i \in 1 .. Len(columns) |-> columns[i].type]
Names(columns) == [i \in 1 .. Len(columns) |-> columns[i].name]

\* the generated query prepared, the failure not thrown
PrepareGeneratedSql_NoErrorCheck(b, prepared) ==
    [b EXCEPT !.prepared = prepared, !.prepare_calls = @ + 1, !.pc = "bound",
              !.return_types = @ \o Types(prepared.columns),
              !.names = @ \o Names(prepared.columns),
              !.result_types = @ \o Types(prepared.columns),
              !.result_names = @ \o Names(prepared.columns)]

\* lines 207-234 (and 342-364): Prepare(generated_sql) on the connection of
\* its own, the throw on an error, the columns of the statement appended
PrepareGeneratedSql(b, prepared) ==
    IF prepared.error # ""
    THEN [b EXCEPT !.prepared = prepared, !.prepare_calls = @ + 1, !.pc = "failed",
                   !.thrown = Err("Generated SQL failed", prepared.error, 0, b.generated_sql)]
    ELSE [b EXCEPT !.prepared = prepared, !.prepare_calls = @ + 1, !.pc = "bound",
                   !.return_types = @ \o Types(prepared.columns),
                   !.names = @ \o Names(prepared.columns),
                   !.result_types = @ \o Types(prepared.columns),
                   !.result_names = @ \o Names(prepared.columns)]

\* VoiceQueryBind once RecordAndGenerateSQLWithTimeout has its outcome: an
\* exception of the pipeline leaves bind, else the query is prepared
VoiceQueryBind(prepared) ==
    /\ bind.pc = "idle"
    /\ pipe.pc = "done"
    /\ pipe' = IdlePipe
    /\ LET b == [IdleBind EXCEPT !.include_metadata = FALSE,
                                 !.generated_sql = pipe.out_sql,
                                 !.transcription = pipe.out_transcription]
       IN  bind' = IF pipe.thrown # NoError
                   THEN [b EXCEPT !.pc = "failed", !.thrown = pipe.thrown]
                   ELSE PrepareGeneratedSql(b, prepared)
    /\ UNCHANGED <<sdl_initialized_, sdl_open, rec, rus, cli, obs, json, exceptBind>>

\* the two columns of the provenance put after the columns of the query
VoiceQueryWithSqlBind_MetadataLast(prepared) ==
    /\ bind.pc = "idle"
    /\ pipe.pc = "done"
    /\ pipe' = IdlePipe
    /\ LET b == [IdleBind EXCEPT !.include_metadata = TRUE,
                                 !.generated_sql = pipe.out_sql,
                                 !.transcription = pipe.out_transcription]
           q == PrepareGeneratedSql(b, prepared)
       IN  bind' = IF pipe.thrown # NoError
                   THEN [b EXCEPT !.pc = "failed", !.thrown = pipe.thrown]
                   ELSE [q EXCEPT !.return_types = @ \o <<"VARCHAR", "VARCHAR">>,
                                  !.names = @ \o <<"_generated_sql", "_transcription">>,
                                  !.result_types = @ \o <<"VARCHAR", "VARCHAR">>,
                                  !.result_names = @ \o <<"_generated_sql", "_transcription">>]
    /\ UNCHANGED <<sdl_initialized_, sdl_open, rec, rus, cli, obs, json, exceptBind>>

\* VoiceQueryWithSqlBind once the pipeline has its outcome: the two VARCHAR
\* columns first, then the query prepared
VoiceQueryWithSqlBind(prepared) ==
    /\ bind.pc = "idle"
    /\ pipe.pc = "done"
    /\ pipe' = IdlePipe
    /\ LET b == [IdleBind EXCEPT !.include_metadata = TRUE,
                                 !.generated_sql = pipe.out_sql,
                                 !.transcription = pipe.out_transcription]
           m == [b EXCEPT !.return_types = <<"VARCHAR", "VARCHAR">>,
                          !.names = <<"_generated_sql", "_transcription">>,
                          !.result_types = <<"VARCHAR", "VARCHAR">>,
                          !.result_names = <<"_generated_sql", "_transcription">>]
       IN  bind' = IF pipe.thrown # NoError
                   THEN [b EXCEPT !.pc = "failed", !.thrown = pipe.thrown]
                   ELSE PrepareGeneratedSql(m, prepared)
    /\ UNCHANGED <<sdl_initialized_, sdl_open, rec, rus, cli, obs, json, exceptBind>>

\* VoiceQueryInit
VoiceQueryInit ==
    /\ bind.pc = "bound"
    /\ bind' = [bind EXCEPT !.pc = "scan", !.state = NewVoiceQueryState]
    /\ UNCHANGED <<sdl_initialized_, sdl_open, rec, rus, cli, obs, pipe, json, exceptBind>>

\* the chunk handed out stays the next one
Fetch_KeepPending(s) ==
    IF s.pending = <<>>
    THEN [s EXCEPT !.has_chunk = FALSE, !.current_chunk = <<>>, !.current_row = 0]
    ELSE [s EXCEPT !.has_chunk = TRUE, !.current_chunk = Head(s.pending), !.current_row = 0]

\* query_result->Fetch(): the next chunk, or none
Fetch(s) ==
    IF s.pending = <<>>
    THEN [s EXCEPT !.has_chunk = FALSE, !.current_chunk = <<>>, !.current_row = 0]
    ELSE [s EXCEPT !.has_chunk = TRUE, !.current_chunk = Head(s.pending),
                   !.pending = Tail(@), !.current_row = 0]

\* lines 276-286: the values SetValue puts in one row of the output chunk
OutputRow(b, row) ==
    LET col_offset == IF b.include_metadata THEN 2 ELSE 0
    IN  [c \in 1 .. Len(b.return_types) |->
            IF b.include_metadata /\ c = 1 THEN b.generated_sql
            ELSE IF b.include_metadata /\ c = 2 THEN b.transcription
            ELSE IF c - col_offset \in DOMAIN row THEN row[c - col_offset]
            ELSE <<>>]

Min(a, b) == IF a < b THEN a ELSE b

\* lines 272-303: rows current_row .. of the current chunk copied, at most
\* STANDARD_VECTOR_SIZE of them, and the next chunk fetched if it is used up
CopyRows(b, s) ==
    LET count == Min(Len(s.current_chunk) - s.current_row, StandardVectorSize)
        out == [i \in 1 .. count |-> OutputRow(b, s.current_chunk[s.current_row + i])]
        t == [s EXCEPT !.current_row = @ + count]
        more == t.current_row >= Len(t.current_chunk)
        u == IF more THEN Fetch(t) ELSE t
    IN  [b EXCEPT !.output = out, !.emitted = @ \o out,
                  !.state = IF more /\ (~u.has_chunk \/ Len(u.current_chunk) = 0)
                            THEN [u EXCEPT !.finished = TRUE] ELSE u]

\* VoiceQueryExecute, one call; query: what Query answers if it is called
VoiceQueryExecute(query) ==
    /\ bind.pc = "scan"
    /\ LET s0 == bind.state
           called == ~s0.finished /\ ~s0.query_result
           b == IF called
                THEN [bind EXCEPT !.query_calls = @ + 1, !.result = query.chunks,
                                  !.state.query_result = TRUE,
                                  !.state.pending = query.chunks]
                ELSE bind
           s1 == b.state
           fetch == ~s1.has_chunk \/ s1.current_row >= Len(s1.current_chunk)
           s2 == IF fetch THEN Fetch(s1) ELSE s1
       IN  bind' = IF s0.finished
                   THEN [bind EXCEPT !.output = <<>>]
                   ELSE IF called /\ query.error # ""
                   THEN [b EXCEPT !.pc = "failed", !.output = <<>>,
                                  !.thrown = Err("Generated SQL failed", query.error, 0,
                                                 bind.generated_sql)]
                   ELSE IF fetch /\ (~s2.has_chunk \/ Len(s2.current_chunk) = 0)
                   THEN [b EXCEPT !.output = <<>>, !.state = [s2 EXCEPT !.finished = TRUE]]
                   ELSE CopyRows(b, s2)
    /\ UNCHANGED <<sdl_initialized_, sdl_open, rec, rus, cli, obs, pipe, json, exceptBind>>

\* the statement that used the table function is over
VoiceQueryEnd ==
    /\ bind.pc \in {"failed", "scan"}
    /\ bind' = IdleBind
    /\ UNCHANGED <<sdl_initialized_, sdl_open, rec, rus, cli, obs, pipe, json, exceptBind>>

\* one statement after the other: bind runs the pipeline, then the scan
NextBind ==
    \/ /\ bind.pc = "idle"
       /\ \E config \in Configs, device_id \in DeviceIds, schema \in Schemas :
             PL_ExtractSchema(config, device_id, schema)
    \/ PL_Launch
    \/ PL_Timeout
    \/ PL_Unwind
    \/ PL_Ready
    \/ PW_Begin
    \/ \E i \in InitAnswers, o \in OpenAnswers : PW_Record(i, o)
    \/ \E chunk \in Chunks : DeliverChunk(chunk)
    \/ RUS_LoopCheck
    \/ \E overrun \in SleepOverruns : RUS_Poll(overrun)
    \/ RUS_Stop
    \/ PW_Recorded
    \/ \E answer \in TranscribeAnswers : PW_Transcribe(answer)
    \/ \E curl \in CurlAnswers : PW_Post(curl)
    \/ PW_Parse
    \/ \E prepared \in PrepareAnswers : VoiceQueryBind(prepared)
    \/ \E prepared \in PrepareAnswers : VoiceQueryWithSqlBind(prepared)
    \/ VoiceQueryInit
    \/ \E query \in QueryAnswers(Len(bind.prepared.columns)) : VoiceQueryExecute(query)
    \/ VoiceQueryEnd

SpecBind == Init /\ [][NextBind]_vars

\* statements whose pipeline runs on the default device with one setting of
\* the timeouts and meets no deadline, then the scan
NextExecute ==
    \/ /\ bind.pc = "idle"
       /\ \E config \in ExecuteConfigs, schema \in Schemas : PL_ExtractSchema(config, -1, schema)
    \/ PL_Launch
    \/ PL_Ready
    \/ PW_Begin
    \/ \E i \in InitAnswers, o \in OpenAnswers : PW_Record(i, o)
    \/ \E chunk \in Chunks : DeliverChunk(chunk)
    \/ RUS_LoopCheck
    \/ \E overrun \in SleepOverruns : RUS_Poll(overrun)
    \/ RUS_Stop
    \/ PW_Recorded
    \/ \E answer \in TranscribeAnswers : PW_Transcribe(answer)
    \/ \E curl \in CurlAnswers : PW_Post(curl)
    \/ PW_Parse
    \/ \E prepared \in PrepareAnswers : VoiceQueryBind(prepared)
    \/ \E prepared \in PrepareAnswers : VoiceQueryWithSqlBind(prepared)
    \/ VoiceQueryInit
    \/ \E query \in QueryAnswers(Len(bind.prepared.columns)) : VoiceQueryExecute(query)
    \/ VoiceQueryEnd

SpecExecute == Init /\ [][NextExecute]_vars

\* the executor goes on calling VoiceQueryExecute while the statement lasts
FairSpecExecute ==
    /\ SpecExecute
    /\ WF_vars(\E query \in QueryAnswers(Len(bind.prepared.columns)) : VoiceQueryExecute(query))

\* ------------------------------------------------- HttpClient::Post, called
HP_Post(url, timeout_seconds, curl) ==
    /\ http.pc = "idle"
    /\ http' = [pc |-> "done", url |-> url, timeout_seconds |-> timeout_seconds,
                curl |-> curl, response |-> Post(url, timeout_seconds, curl)]
    /\ UNCHANGED <<sdl_initialized_, sdl_open, rec, rus, cli, obs, pipe, json, exceptHttp>>

\* the caller has the HttpResponse
HP_Return ==
    /\ http.pc = "done"
    /\ http' = IdleHttp
    /\ UNCHANGED <<sdl_initialized_, sdl_open, rec, rus, cli, obs, pipe, json, exceptHttp>>

NextPost ==
    \/ \E url \in PostUrls, timeout_seconds \in TextToSqlTimeouts, curl \in PostAnswers : HP_Post(url, timeout_seconds, curl)
    \/ HP_Return

SpecPost == Init /\ [][NextPost]_vars

\* --------------------------------------------------------------- properties
\* C1: in RecordUntilSilence on a freshly constructed recorder, while every
\* polled amplitude is <= the threshold the silence timer is never started and
\* the loop never leaves as Endpointed; a poll at which it leaves is a poll
\* whose elapsed time is >= max_duration_sec.
C1_AllQuietExitsOnlyAtMaxDuration ==
    (obs.run.start.ok /\ obs.run.fresh /\ obs.run.lastLoudPoll = 0) =>
        /\ ~rus.had_sound
        /\ rus.silence_start = -1
        /\ obs.run.exit # "Endpointed"
        /\ ~rec.silence_detected_
        /\ rus.brk # "none" =>
               rus.brk = "MaxDuration" /\ rus.elapsed >= rus.max_duration_sec

\* a fresh recorder polled at least three times, a (quiet) chunk delivered,
\* left at the ceiling
C1_Witness ==
    /\ obs.run.start.ok /\ obs.run.fresh /\ obs.run.lastLoudPoll = 0
    /\ obs.run.polls >= 3
    /\ obs.delivered # <<>>
    /\ obs.run.exit = "MaxDuration"

\* C2: when the loop leaves as Endpointed at elapsed time t, an earlier poll
\* was loud, the polls after the most recent loud poll were all quiet, and t
\* minus the elapsed time of the first of them is >= silence_duration_sec.
C2_EndpointedAfterFullSilence ==
    obs.run.exit = "Endpointed" =>
        /\ obs.run.lastLoudPoll >= 1
        /\ obs.run.lastLoudPoll < obs.run.polls
        /\ obs.run.quietSince >= 0
        /\ rus.elapsed - obs.run.quietSince >= rus.silence_duration_sec

\* endpointed after a positive silence that took several polls
C2_Witness ==
    /\ obs.run.exit = "Endpointed"
    /\ rus.silence_duration_sec > 0
    /\ obs.run.polls >= obs.run.lastLoudPoll + 3

\* C3: polls 50 ms apart, silence_duration_sec 0.5 s, the ceiling beyond the
\* trace, 20 loud polls and then quiet ones: the loop leaves as Endpointed at
\* poll 31 (20 loud polls, the quiet poll that starts the timer, ten more),
\* so at about poll 30 and never at a poll below 30.
ScenarioPoll == Scenario.loud + Scenario.silence_ms \div PollIntervalMs

C3_ScenarioEndpointsAtPoll30 ==
    (obs.run.start.ok /\ obs.run.onScenario) =>
        /\ obs.run.exit = "Endpointed" =>
               obs.run.polls >= ScenarioPoll /\ obs.run.polls <= ScenarioPoll + 1
        /\ obs.run.polls > ScenarioPoll => obs.run.exit = "Endpointed"
        /\ obs.run.polls < ScenarioPoll => obs.run.exit = "none"

C3_Witness ==
    /\ obs.run.onScenario
    /\ obs.run.polls > Scenario.loud
    /\ obs.run.exit = "Endpointed"

\* C4: whatever is delivered (also nothing at all) the poll loop is left in
\* the end, at the latest at the first poll whose elapsed time is >=
\* max_duration_sec: that test precedes the amplitude test, so such a poll
\* leaves by the ceiling whatever the endpointing state.
C4_LoopLeftByMaxDuration ==
    /\ [](rus.pc \in {"loop", "sleep"} => <>(rus.pc \in {"stop", "done"}))
    /\ []((obs.run.polls >= 1 /\ rus.elapsed >= rus.max_duration_sec) =>
              (obs.run.exit = "MaxDuration" /\ rus.pc \in {"stop", "done"}))

\* nothing was delivered after a successful start, and the loop was left at
\* the ceiling after several polls
C4_Witness ==
    /\ obs.run.start.ok /\ obs.delivered = <<>> /\ rec.buffer_ = <<>>
    /\ obs.run.polls >= 3
    /\ obs.run.exit = "MaxDuration"

\* C5: while every polled amplitude is > the threshold and the loop is not
\* ended from outside, no poll whose elapsed time is < max_duration_sec leaves
\* the loop and the first poll whose elapsed time is >= max_duration_sec does.
C5_AllLoudExitsExactlyAtMaxDuration ==
    (obs.run.polls >= 1 /\ obs.run.allLoud /\ obs.run.exit # "Cancelled") =>
        /\ rus.elapsed < rus.max_duration_sec => obs.run.exit = "none"
        /\ rus.elapsed >= rus.max_duration_sec => obs.run.exit = "MaxDuration"

C5_Witness ==
    /\ obs.run.polls >= 3 /\ obs.run.allLoud
    /\ obs.run.exit = "MaxDuration"

\* C6: however the poll loop is left (endpointing, ceiling, recording_ cleared
\* by another thread), RecordUntilSilence then calls StopRecording exactly once
\* and returns that call's result and error, "No audio data recorded" included.
C6_ExitThenOneStopRecording ==
    /\ [](rus.pc = "stop" => <>(rus.pc = "done"))
    /\ []((rus.pc = "done" /\ obs.run.start.ok) =>
              (obs.run.exit # "none" /\ obs.run.stopCalls = 1 /\ rus.ret = obs.run.stop))
    /\ [](rus.pc \in {"idle", "loop", "sleep", "stop"} => obs.run.stopCalls = 0)
    /\ [](rus.pc = "stop" => obs.run.exit # "none")

\* left at the ceiling with nothing captured: the empty-capture failure is
\* what RecordUntilSilence returned
C6_Witness ==
    /\ rus.pc = "done" /\ obs.run.stopCalls = 1
    /\ obs.run.exit \in {"MaxDuration", "Endpointed", "Cancelled"}
    /\ ~rus.ret.ok /\ rus.ret.error = "No audio data recorded"

\* C7: when StartRecording fails inside RecordUntilSilence, the call returns
\* that failure and its error at once: no loop, no sleep, no StopRecording.
C7_StartFailureReturnsAtOnce ==
    /\ ~obs.run.start.ok => rus.pc \in {"idle", "done"}
    /\ (rus.pc = "done" /\ ~obs.run.start.ok) =>
           /\ ~rus.ret.ok
           /\ rus.ret.error = obs.run.start.error
           /\ rus.ret.error \in {"Failed to initialize SDL", "Already recording",
                                 "Failed to open audio device"}
           /\ obs.run.polls = 0 /\ rus.elapsed = 0
           /\ obs.run.stopCalls = 0
           /\ obs.run.exit = "none"

\* RecordUntilSilence was refused because a session was active, and that
\* session is still active
C7_Witness ==
    /\ rus.pc = "done" /\ ~obs.run.start.ok
    /\ rus.ret.error = "Already recording"
    /\ rec.recording_

\* C8: StartRecording on a recorder whose session is active fails with
\* "Already recording" and changes nothing: no device is opened, and the device
\* handle, the recording flag and the buffer are as they were.
C8_StartWhileActiveRejected ==
    [][(cli'.seq # cli.seq /\ cli'.op = "StartRecording" /\ rec.recording_) =>
          /\ ~cli'.ret.ok
          /\ cli'.ret.error = "Already recording"
          /\ rec' = rec
          /\ sdl_open' = sdl_open]_vars

\* a second StartRecording was refused while the session held samples
C8_Witness ==
    /\ cli.op = "StartRecording" /\ cli.ret.error = "Already recording"
    /\ rec.recording_ /\ rec.buffer_ # <<>> /\ Cardinality(sdl_open) = 1

\* C9: a StopRecording that follows a StopRecording at once fails with "Not
\* recording", whether the first succeeded or failed with the empty-capture
\* error; StopRecording without an active session fails with that error and
\* changes nothing.
C9_SecondStopNotRecording ==
    [][(cli'.seq # cli.seq /\ cli'.op = "StopRecording") =>
          /\ cli.op = "StopRecording" =>
                 ~cli'.ret.ok /\ cli'.ret.error = "Not recording"
          /\ ~rec.recording_ =>
                 /\ ~cli'.ret.ok /\ cli'.ret.error = "Not recording"
                 /\ cli'.ret.pcm = <<>>
                 /\ rec' = rec /\ sdl_open' = sdl_open]_vars

\* two calls of StopRecording in a row on a recorder that had a session
C9_Witness ==
    /\ cli.op = "StopRecording" /\ cli.prev = "StopRecording"
    /\ cli.ret.error = "Not recording"
    /\ obs.used

\* C10: a successful StopRecording hands over exactly the samples appended
\* since the matching StartRecording, in the order delivered, and leaves the
\* recorder's buffer empty; with no sample captured it fails with the
\* empty-capture error and hands over nothing.
C10_StopHandsOverTheSamples ==
    cli.op = "StopRecording" =>
        /\ cli.ret.ok =>
               /\ cli.ret.pcm = obs.delivered
               /\ obs.delivered # <<>>
               /\ rec.buffer_ = <<>>
        /\ cli.ret.error = "No audio data recorded" =>
               ~cli.ret.ok /\ obs.delivered = <<>>
        /\ ~cli.ret.ok => cli.ret.pcm = <<>>
        /\ (~cli.ret.ok /\ cli.prev = "StartRecording") =>
               cli.ret.error \in {"No audio data recorded", "Not recording"}

\* two chunks, delivered in this order, were handed over
C10_Witness ==
    /\ cli.op = "StopRecording" /\ cli.ret.ok
    /\ cli.ret.pcm = <<1, -2>>
    /\ rec.buffer_ = <<>>

\* C11: StartRecording with a device id >= 0 that SDL does not list, on a
\* recorder without a session, fails with "Failed to open audio device" and
\* opens no device.  (The code passes the NULL name of the unlisted id to
\* SDL_OpenAudioDevice, which then opens the default device.)
C11_UnlistedDeviceFails ==
    [][(/\ cli'.seq # cli.seq /\ cli'.op = "StartRecording"
        /\ cli'.arg >= 0 /\ DeviceName(cli'.arg) = -1
        /\ ~rec.recording_) =>
          /\ ~cli'.ret.ok
          /\ cli'.ret.error \in {"Failed to open audio device", "Failed to initialize SDL"}
          /\ sdl_open' = sdl_open]_vars

\* a session was started for an unlisted device id: it runs on the default
\* device
C11_Witness ==
    /\ cli.op = "StartRecording" /\ cli.ret.ok
    /\ cli.arg >= 0 /\ DeviceName(cli.arg) = -1
    /\ rec.recording_
    /\ \E o \in sdl_open : o.id = rec.device_id_ /\ o.name = -1

TimeoutFailure(seconds) == Err("Voice query timed out after", "", seconds, <<>>)

\* C12: when the invocation is over for its caller, whichever way (success,
\* start failure, empty capture, a later stage's failure, the overall timeout),
\* no capture device is open; nor is one when RecordUntilSilence has returned
\* or the thread has left RecordAndGenerateSQL.
C12_NoDeviceOpenAtExit ==
    /\ pipe.pc = "done" => sdl_open = {}
    /\ pipe.wpc = "finished" => sdl_open = {}
    /\ (pipe.wpc = "record" /\ rus.pc = "done") => sdl_open = {}

\* the caller has the timeout failure of an invocation that did record
C12_Witness ==
    /\ pipe.pc = "done" /\ pipe.timed_out
    /\ pipe.record_ret.ok /\ pipe.pcm_data # <<>>
    /\ sdl_open = {}

\* C13: the failure thrown when wait_for times out names
\* config.voice_query_timeout, whatever the thread does later; the failure of a
\* translation request that timed out names config.text_to_sql_timeout and is
\* another failure (other words) than the former.
C13_TimeoutNamesVoiceQueryTimeout ==
    /\ pipe.timed_out => pipe.thrown = TimeoutFailure(pipe.config.voice_query_timeout)
    /\ (pipe.pc = "done" /\ pipe.timed_out) => pipe.thrown.kind = "Voice query timed out after"
    /\ pipe.response.error.kind = "Request timed out after" =>
           /\ pipe.response.error.num = pipe.config.text_to_sql_timeout
           /\ pipe.exception_ptr = pipe.response.error
           /\ pipe.exception_ptr.kind # TimeoutFailure(0).kind
    /\ (pipe.pc = "done" /\ ~pipe.timed_out) => pipe.thrown.kind # TimeoutFailure(0).kind

\* the overall timeout fired while the request was under way, the request
\* then timed out itself, and the two settings differ
C13_Witness ==
    /\ pipe.pc = "done" /\ pipe.timed_out
    /\ pipe.exception_ptr.kind = "Request timed out after"
    /\ pipe.thrown.num = pipe.config.voice_query_timeout
    /\ pipe.config.voice_query_timeout # pipe.config.text_to_sql_timeout

\* C14: once wait_for has timed out the caller receives the timeout failure
\* without waiting for the thread: its return is possible whatever the thread
\* is doing.  (The future of std::async joins the thread in its destructor, so
\* the exception leaves the function only when the thread has finished.)
C14_TimeoutReturnsWithoutWaiting ==
    pipe.pc = "unwind" => ENABLED PL_Unwind

\* the timeout failure is thrown and the caller is held: the thread is still
\* polling the microphone
C14_Witness ==
    /\ pipe.pc = "unwind" /\ pipe.wpc = "record" /\ rus.pc = "sleep"
    /\ ~ENABLED PL_Unwind

\* C15: once wait_for has timed out, what the caller gets is the timeout
\* failure, and neither the query nor the transcript nor the failure of the
\* thread reaches the caller, however the thread ends afterwards.
C15_AfterTimeoutOnlyTimeoutDelivered ==
    pipe.timed_out =>
        /\ pipe.thrown = TimeoutFailure(pipe.config.voice_query_timeout)
        /\ pipe.out_sql = <<>>
        /\ pipe.out_transcription = <<>>

\* timed out, and afterwards the thread produced a query and a transcript
C15_Witness ==
    /\ pipe.pc = "done" /\ pipe.timed_out
    /\ pipe.exception_ptr = NoError
    /\ pipe.result_sql # <<>> /\ pipe.result_transcription # <<>>

\* the stages an invocation runs and the failure it ends with, from what the
\* stages answered: the first failure in the order recording, empty utterance,
\* transcription, (empty transcript,) translation request, missing field
FirstFailure(p) ==
    IF ~p.record_ret.ok
    THEN [stages |-> <<"record">>,
          error |-> Err("Failed to record audio", p.record_ret.error, 0, <<>>)]
    ELSE IF p.pcm_data = <<>>
    THEN [stages |-> <<"record">>, error |-> Err("No speech detected", "", 0, <<>>)]
    ELSE IF ~p.transcription.success
    THEN [stages |-> <<"record", "transcribe">>,
          error |-> Err("Transcription failed", p.transcription.error, 0, <<>>)]
    ELSE IF p.transcription.full_text = <<>>
    THEN [stages |-> <<"record", "transcribe">>,
          error |-> Err("No speech detected", "", 0, <<>>)]
    ELSE IF ~p.response.success
    THEN [stages |-> <<"record", "transcribe", "post">>, error |-> p.response.error]
    ELSE IF p.result_sql = <<>>
    THEN [stages |-> <<"record", "transcribe", "post", "parse">>,
          error |-> Err("Text-to-SQL proxy error: No SQL in response", "", 0,
                        p.response.body)]
    ELSE [stages |-> <<"record", "transcribe", "post", "parse">>, error |-> NoError]

\* C16: when the thread finished before wait_for timed out, the caller gets
\* the failure of the first failing stage, the stages after it were not run,
\* the failure is not the timeout failure, and without a failure the caller
\* gets the query and the transcript the thread produced.
C16_FirstFailurePropagated ==
    (pipe.pc = "done" /\ ~pipe.timed_out) =>
        /\ pipe.log = FirstFailure(pipe).stages
        /\ pipe.thrown = FirstFailure(pipe).error
        /\ pipe.thrown.kind # TimeoutFailure(0).kind
        /\ pipe.thrown = NoError =>
               /\ pipe.out_sql = pipe.result_sql /\ pipe.out_sql # <<>>
               /\ pipe.out_transcription = pipe.transcription.full_text
        /\ pipe.thrown # NoError => pipe.out_sql = <<>> /\ pipe.out_transcription = <<>>

\* the transcription failed: no request was posted
C16_Witness ==
    /\ pipe.pc = "done" /\ ~pipe.timed_out
    /\ pipe.thrown.kind = "Transcription failed"
    /\ pipe.log = <<"record", "transcribe">>

\* C17: while the thread exists the schema has been extracted, by the calling
\* thread and before wait_for was entered; the thread never uses the
\* ClientContext, and the schema text in the request is the extracted one.
C17_SchemaExtractedBeforeLaunch ==
    /\ (pipe.wpc # "none" \/ pipe.pc \in {"wait", "unwind", "done"}) =>
           /\ pipe.context = <<"caller">>
           /\ pipe.ddl \in Schemas
    /\ \A i \in 1 .. Len(pipe.context) : pipe.context[i] = "caller"
    /\ (\E i \in 1 .. Len(pipe.log) : pipe.log[i] = "post") => pipe.posted = pipe.ddl

\* the request was posted, with the schema the caller had extracted
C17_Witness ==
    /\ pipe.wpc = "finished"
    /\ pipe.log = <<"record", "transcribe", "post", "parse">>
    /\ pipe.posted \in Schemas
    /\ pipe.context = <<"caller">>

C19_SqlFieldReturnedAmongOtherFields ==
    (json.pc = "done" /\ json.input.has_sql) =>
        json.out = json.input.sql /\ ~json.ub

\* "sql" follows a nested object and the call has returned the empty string
C19_Witness ==
    /\ json.pc = "done" /\ json.input.has_sql /\ json.input.plain
    /\ json.input.before = NestedObjectField
    /\ json.out = <<>>

\* C20: samples were captured, the transcription gave a non-empty text T, the
\* translation service answered with a success status and a body whose field
\* "sql" is a non-empty Q, and wait_for did not time out: the caller gets no
\* failure, the query Q and the transcript T.  (With a nested object before
\* "sql" in the body the invocation fails with 'No SQL in response'.)
C20_SuccessDeliversQueryAndTranscript ==
    (/\ pipe.pc = "done" /\ ~pipe.timed_out
     /\ pipe.record_ret.ok /\ pipe.pcm_data # <<>>
     /\ pipe.transcription.success /\ pipe.transcription.full_text # <<>>
     /\ pipe.response.success /\ pipe.sent.has_sql /\ pipe.sent.sql # <<>>) =>
        /\ pipe.thrown = NoError
        /\ pipe.out_sql = pipe.sent.sql
        /\ pipe.out_transcription = pipe.transcription.full_text

\* the body {"o":{"k":1},"sql": "Q"} was answered and the caller has the
\* missing-field failure
C20_Witness ==
    /\ pipe.pc = "done" /\ ~pipe.timed_out
    /\ pipe.sent.has_sql /\ pipe.sent.sql = <<"Q">> /\ pipe.sent.before = NestedObjectField
    /\ pipe.thrown.kind = "Text-to-SQL proxy error: No SQL in response"

\* what holds of the bodies that carry the field "sql" alone: the caller gets
\* the query and the transcript
SqlOnlyBodySucceeds ==
    (/\ pipe.pc = "done" /\ ~pipe.timed_out
     /\ pipe.response.success /\ pipe.sent.has_sql /\ pipe.sent.before = <<>>) =>
        /\ pipe.thrown = NoError
        /\ pipe.out_sql = pipe.sent.sql
        /\ pipe.out_transcription = pipe.transcription.full_text

\* C21: with provenance the bound columns are _generated_sql and
\* _transcription (both VARCHAR) followed by the columns of the prepared
\* query in their order and with their types, and every row put in an output
\* chunk holds the generated query, the transcript, and then the values of the
\* row of the result it was copied from; without provenance the columns and
\* the rows are those of the query.  So the provenance result without its two
\* leading columns is the raw result.
C21_ProvenanceExtendsRaw ==
    bind.pc \in {"bound", "scan"} =>
        LET col_offset == IF bind.include_metadata THEN 2 ELSE 0
            width == col_offset + Len(bind.prepared.columns)
            underlying == Rows(bind.result)
        IN  /\ bind.include_metadata =>
                  /\ SubSeq(bind.names, 1, 2) = <<"_generated_sql", "_transcription">>
                  /\ SubSeq(bind.return_types, 1, 2) = <<"VARCHAR", "VARCHAR">>
            /\ Len(bind.names) = width /\ Len(bind.return_types) = width
            /\ SubSeq(bind.names, col_offset + 1, width) = Names(bind.prepared.columns)
            /\ SubSeq(bind.return_types, col_offset + 1, width) = Types(bind.prepared.columns)
            /\ Len(bind.emitted) <= Len(underlying)
            /\ \A i \in 1 .. Len(bind.emitted) :
                  /\ Len(bind.emitted[i]) = width
                  /\ bind.include_metadata =>
                        /\ bind.emitted[i][1] = bind.generated_sql
                        /\ bind.emitted[i][2] = bind.transcription
                  /\ SubSeq(bind.emitted[i], col_offset + 1, width) = underlying[i]

\* a provenance scan of a two-column result in two chunks, all rows emitted
C21_Witness ==
    /\ bind.pc = "scan" /\ bind.include_metadata /\ bind.state.finished
    /\ Len(bind.prepared.columns) = 2
    /\ Len(bind.result) = 2
    /\ Len(bind.emitted) = Len(Rows(bind.result))
    /\ bind.generated_sql # bind.transcription

\* C22: rows are emitted, and the query is run, only after Prepare succeeded
\* during bind; if Prepare fails, bind throws "Generated SQL failed" with the
\* error of Prepare and the text of the generated query, the scan is never
\* started and no row is emitted.
C22_PreparedBeforeFirstRow ==
    /\ (bind.pc \in {"bound", "scan"} \/ bind.query_calls > 0 \/ bind.emitted # <<>>) =>
          /\ bind.prepare_calls = 1
          /\ bind.prepared.error = ""
    /\ (bind.prepare_calls > 0 /\ bind.prepared.error # "") =>
          /\ bind.pc = "failed"
          /\ bind.thrown = Err("Generated SQL failed", bind.prepared.error, 0, bind.generated_sql)
          /\ bind.generated_sql # <<>>
          /\ bind.query_calls = 0
          /\ bind.emitted = <<>>

\* Prepare failed on a query the pipeline generated
C22_Witness ==
    /\ bind.pc = "failed"
    /\ bind.prepare_calls = 1
    /\ bind.prepared.error = "syntax error"
    /\ bind.thrown.body = <<"Q">>

\* C23: out_sql and out_transcription of the caller hold what they held at
\* the call unless the invocation has succeeded: whatever stage failed
\* (recording, transcription, the request, the missing field, the timeout),
\* they are not assigned, and a transcript obtained before the request failed
\* does not reach the caller.
C23_FailureLeavesOutputsUnchanged ==
    (pipe.pc # "done" \/ pipe.thrown # NoError) =>
        /\ pipe.out_sql = IdlePipe.out_sql
        /\ pipe.out_transcription = IdlePipe.out_transcription

\* the request failed after the transcript was obtained
C23_Witness ==
    /\ pipe.pc = "done"
    /\ ~pipe.timed_out
    /\ pipe.log = <<"record", "transcribe", "post">>
    /\ pipe.thrown = pipe.response.error
    /\ pipe.result_transcription # <<>>
    /\ pipe.out_transcription = <<>>

\* C24: an invocation whose capture session ended with no sample captured
\* fails with "No speech detected. Please try again.", not with a failure of
\* the recording.
C24_EmptyCaptureIsNoSpeech ==
    (/\ pipe.pc = "done" /\ ~pipe.timed_out
     /\ pipe.log = <<"record">>
     /\ \/ pipe.record_ret.error = "No audio data recorded"
        \/ pipe.record_ret.ok /\ pipe.pcm_data = <<>>)
    => pipe.thrown = Err("No speech detected", "", 0, <<>>)

\* the session captured nothing and the caller is told the recording failed
C24_Witness ==
    /\ pipe.pc = "done" /\ ~pipe.timed_out
    /\ pipe.record_ret = [ok |-> FALSE, error |-> "No audio data recorded"]
    /\ pipe.thrown = Err("Failed to record audio", "No audio data recorded", 0, <<>>)

\* C25: when the callback has gone through a chunk of length zero, the
\* amplitude the endpointing loop reads is 0 (and nothing was divided by the
\* zero sample count).
C25_ZeroLengthChunkYieldsZero ==
    (cap.cb = "idle" /\ cap.last_len = 0) => rec.current_amplitude_ = 0

\* a chunk of length zero went through the callback of an active session and
\* the amplitude of the chunk before it is still published
C25_Witness ==
    /\ cap.cb = "idle" /\ cap.last_len = 0
    /\ rec.recording_
    /\ rec.current_amplitude_ = Rms(<<-2>>)

\* a step of the capture thread
CallbackStep == cap'.by = "callback" /\ cap' # cap

\* the steps of StopRecording, in the order of the code
StopOrder == <<"clear", "pause", "close", "move">>

\* C30: a step of the callback changes nothing of the recorder but buffer_,
\* which it extends, and current_amplitude_; the callback goes on to push
\* only if it found recording_ set; StopRecording clears recording_, pauses
\* and closes the device and then moves the buffer; and from the moment the
\* device is closed no callback is running and nothing is appended: the
\* vector handed over holds every sample pushed in the session, the buffer is
\* empty afterwards.
C30_NothingAppendedOnceBufferMoves ==
    /\ [][CallbackStep =>
             /\ rec' = [rec EXCEPT !.buffer_ = rec'.buffer_,
                                   !.current_amplitude_ = rec'.current_amplitude_]
             /\ Len(rec'.buffer_) >= Len(rec.buffer_)
             /\ SubSeq(rec'.buffer_, 1, Len(rec.buffer_)) = rec.buffer_
             /\ sdl_open' = sdl_open]_vars
    /\ [][(cap.cb = "idle" /\ cap'.cb = "push") => rec.recording_]_vars
    /\ [][(cap.stop = "closed" \/ cap.trace = StopOrder) =>
             (rec'.buffer_ = rec.buffer_ \/ rec'.buffer_ = <<>>)]_vars
    /\ [](/\ cap.trace = SubSeq(StopOrder, 1, Len(cap.trace))
          /\ cap.stop = "closed" =>
                /\ cap.cb = "idle" /\ ~rec.recording_ /\ rec.device_id_ = 0
                /\ cap.trace = SubSeq(StopOrder, 1, 3)
          /\ (cap.trace = StopOrder /\ cap.ret.ok) =>
                /\ cap.ret.pcm = cap.appended
                /\ rec.buffer_ = <<>>
                /\ cap.cb = "idle")

\* StopRecording handed over a buffer whose last sample the callback pushed
\* after recording_ had been cleared, while SDL_CloseAudioDevice waited
C30_Witness ==
    /\ cap.trace = StopOrder
    /\ cap.ret.ok
    /\ cap.late
    /\ Len(cap.ret.pcm) = MaxBuf
    /\ cap.dropped

\* the threads inside the scope of the lock_guard of GetContext
InGetContext == {t \in Callers : wcm.th[t].pc \in {"lookup", "load"}}

\* C27: whatever the interleaving of the GetContext calls, at most one thread
\* is between the lookup and the insertion, and it holds mutex_; for every
\* cache key at most one load has succeeded and every context handed out for
\* the key is the one cached for it.
C27_OneLoadPerKey ==
    /\ Cardinality(InGetContext) <= 1
    /\ \A t \in InGetContext : wcm.mutex_ = t
    /\ \A k \in CacheKeys :
          /\ wcm.loads[k] <= 1
          /\ Cardinality(wcm.returned[k]) <= 1
          /\ wcm.returned[k] \subseteq {wcm.contexts_[k].id}
    /\ \A t \in Callers :
          (wcm.th[t].pc = "done" /\ wcm.th[t].ret.id # 0) =>
              wcm.th[t].ret = wcm.contexts_[wcm.th[t].cache_key]

\* both threads called GetContext with the same key and hold the same
\* context, which was loaded once
C27_Witness ==
    /\ \A t \in Callers : wcm.th[t].pc = "done" /\ wcm.th[t].ret.id # 0
    /\ \A t, u \in Callers :
          /\ wcm.th[t].cache_key = wcm.th[u].cache_key
          /\ wcm.th[t].ret = wcm.th[u].ret
    /\ \E k \in CacheKeys : wcm.loads[k] = 1 /\ wcm.handles = 1

\* C31: a model path given to ClearContext has no context in the cache under
\* either of its keys until it is loaded again, and a GetContext called for
\* the path after the ClearContext does not return the context that was
\* cached before.
C31_ClearedModelIsReloaded ==
    /\ \A m \in wcm.cleared, g \in BOOLEAN : CachedContext(wcm, CacheKey(m, g)).id = 0
    /\ \A t \in Callers :
          (wcm.th[t].pc = "done" /\ wcm.th[t].stale # 0) =>
              wcm.th[t].ret.id # wcm.th[t].stale

\* a context was loaded, ClearContext ran for its model path, and the next
\* GetContext for the path got the same context without a second load
C31_Witness ==
    \E t \in Callers :
        /\ wcm.th[t].pc = "done"
        /\ wcm.th[t].model_path \in wcm.cleared
        /\ wcm.th[t].stale # 0
        /\ wcm.th[t].ret.id = wcm.th[t].stale
        /\ wcm.loads[wcm.th[t].cache_key] = 1
        /\ wcm.handles = 1

\* the loops of ParseSqlFromJson
ScanLoops == {"while", "object", "array"}

\* C32: every pass of the while loop of ParseSqlFromJson and of its two
\* skipping loops leaves the loop or leaves ptr further on than it found it.
C32_EveryIterationAdvancesOrExits ==
    [][(scan.pc \in ScanLoops /\ scan'.pc = scan.pc) => scan'.ptr > scan.ptr]_vars

\* the loop that skips the object {"p":{}} has met the inner opening brace
\* and raised depth without moving
C32_Witness ==
    /\ scan.json_str \in NestedBodies
    /\ scan.pc = "object"
    /\ scan.json_str[scan.ptr] = "{"
    /\ scan.depth = 2

\* what the passes return is what ParseSqlFromJson is defined to return
ScanAgreesWithParse ==
    scan.pc = "done" =>
        LET r == ParseSqlFromJson(scan.json_str) IN r.ub \/ scan.out = r.val

\* C33: for every string s with no control character below 0x20 other than
\* backspace, form feed, newline, carriage return and tab, ParseSqlFromJson
\* on the body {"sql":"E"}, E = EscapeJsonString(s), returns s (input.sql is
\* the string s the body was made from).
C33_EscapeThenParseIsIdentity ==
    (/\ json.pc = "done"
     /\ json.input.text = EscapedSqlBody(json.input.sql)
     /\ NoOtherControl(json.input.sql)) =>
        (json.out = json.input.sql /\ ~json.ub)

\* the string of a backslash and the letter n came back from its body
\* {"sql":"\\n"}, and not as a newline
C33_Witness ==
    /\ json.pc = "done"
    /\ json.input.text = EscapedSqlBody(<<"\\", "n">>)
    /\ Len(json.input.text) = 13
    /\ json.out = <<"\\", "n">>

\* with a control character the round trip loses it: the body of <<"SOH">>
\* is {"sql":"\u0001"} and gives the empty string
EscapeLosesControl ==
    /\ json.pc = "done"
    /\ json.input.text = EscapedSqlBody(<<"SOH">>)
    /\ json.out = <<>>

\* the rows of the executed query's result as the output chunks carry them
ExpectedRows == [i \in 1 .. Len(Rows(bind.result)) |-> OutputRow(bind, Rows(bind.result)[i])]

\* C34: during a scan the rows emitted so far are the first rows of the
\* result of the executed query, in its order and each once, and are all of
\* them once finished is set; Query has been called at most once; a call made
\* with finished set emits no row; and a scan that goes on reaches finished
\* unless Query reports an error.
C34_RowsOnceInOrderThenFinished ==
    /\ [](bind.pc = "scan" =>
            /\ Len(bind.emitted) <= Len(ExpectedRows)
            /\ bind.emitted = SubSeq(ExpectedRows, 1, Len(bind.emitted))
            /\ (bind.state.finished => bind.emitted = ExpectedRows)
            /\ bind.query_calls <= 1)
    /\ [][(bind.pc = "scan" /\ bind.state.finished /\ bind'.pc = "scan") =>
              (bind'.emitted = bind.emitted /\ bind'.output = <<>> /\ bind'.query_calls = bind.query_calls)]_vars
    /\ ((bind.pc = "scan") ~> (bind.state.finished \/ bind.pc # "scan"))

\* a result of two chunks, of two rows and of one, has been emitted whole by
\* whisper_voice_query_with_sql and the scan is finished
C34_Witness ==
    /\ bind.pc = "scan" /\ bind.state.finished
    /\ bind.include_metadata
    /\ Len(bind.result) = 2 /\ Len(bind.result[1]) = 2 /\ Len(bind.result[2]) = 1
    /\ Len(bind.emitted) = 3 /\ bind.emitted = ExpectedRows
    /\ bind.query_calls = 1
    /\ bind.output = <<>>

\* thread t passed line 81 before thread u
LockedBefore(t, u) ==
    \E i, j \in 1 .. Len(strt.order) : i < j /\ strt.order[i] = t /\ strt.order[j] = u

\* C35: of the StartRecording calls made concurrently on one idle recorder at
\* most one returns true and at most one device is open, whatever the
\* interleaving; a call that takes sdl_mutex_ after the one that succeeded
\* returns false with "Already recording"; and between the test of
\* recording_ and the return a thread holds sdl_mutex_.
C35_OneStartSucceeds ==
    /\ Cardinality({t \in Starters : strt.th[t].pc = "done" /\ strt.th[t].ret.ok}) <= 1
    /\ Cardinality(sdl_open) <= 1
    /\ \A t \in Starters :
          strt.th[t].pc \in {"init", "check", "open", "commit"} => strt.sdl_mutex_ = t
    /\ \A t, u \in Starters :
          (/\ strt.th[t].pc = "done" /\ strt.th[t].ret.ok
           /\ strt.th[u].pc = "done" /\ LockedBefore(t, u)) =>
              (~strt.th[u].ret.ok /\ strt.th[u].ret.error = "Already recording")

\* both calls have returned: the first to lock opened the device, the other
\* failed with "Already recording"
C35_Witness ==
    /\ \A t \in Starters : strt.th[t].pc = "done"
    /\ \E t, u \in Starters :
          /\ LockedBefore(t, u)
          /\ strt.th[t].ret.ok /\ rec.device_id_ = strt.th[t].dev
          /\ strt.th[u].ret = [ok |-> FALSE, error |-> "Already recording"]
    /\ rec.recording_
    /\ Cardinality(sdl_open) = 1

\* the statements of StartRecording, run by one thread alone, come to what
\* StartRecording is defined to return
StartAgreesWithOperator ==
    \A t \in Starters :
        (strt.th[t].pc = "done" /\ Len(strt.order) = 1) =>
            \E i, o \in BOOLEAN, init \in BOOLEAN :
                LET s == StartRecording(NewRecorder, init, {}, strt.th[t].device_id, "", i, o)
                IN  /\ s.ok = strt.th[t].ret.ok /\ s.error = strt.th[t].ret.error
                    /\ s.rec = rec /\ s.open = sdl_open /\ s.init = sdl_initialized_

\* reading the catalog throws: a table that is not skipped is unreadable
ExtractionFails(catalog) ==
    \E i \in 1 .. Len(catalog) :
        /\ catalog[i].throws /\ ~catalog[i].system
        /\ catalog[i].schema \notin {"pg_catalog", "information_schema"}

\* C36: when reading the catalog fails, ExtractDatabaseDDL throws nothing
\* and returns the empty string; the invocation goes on with an empty ddl, no
\* failure it meets comes from the extraction, and the request it posts is
\* built with an empty ddl value.
C36_ExtractionFailureGivesEmptySchema ==
    (ext.pc = "done" /\ ExtractionFails(ext.catalog)) =>
        /\ ~ext.thrown /\ ext.ddl = <<>>
        /\ pipe.pc # "idle" =>
              /\ pipe.ddl = <<>>
              /\ pipe.thrown.kind \in
                    {"none", "Voice query timed out after", "Failed to record audio",
                     "No speech detected", "Transcription failed", "Request timed out after",
                     "Cannot connect to text-to-sql proxy at", "HTTP request failed",
                     "Failed to initialize HTTP client", "Text-to-SQL proxy error: HTTP",
                     "Text-to-SQL proxy error: No SQL in response"}
              /\ (\E i \in 1 .. Len(pipe.log) : pipe.log[i] = "post") =>
                    /\ pipe.posted = <<>>
                    /\ SubSeq(BuildJsonRequest(pipe.posted, pipe.result_transcription), 1, 9)
                          = <<"{", "\"", "d", "d", "l", "\"", ":", "\"", "\"">>

\* a table was read, the next one threw: the invocation has nevertheless
\* posted its request, with an empty ddl, and delivered the query
C36_Witness ==
    /\ ext.pc = "done" /\ ext.catalog = <<UserTable, Unreadable>>
    /\ pipe.pc = "done" /\ pipe.thrown = NoError
    /\ pipe.log = <<"record", "transcribe", "post", "parse">>
    /\ pipe.posted = <<>>
    /\ pipe.out_sql # <<>>

\* C37: run with the same configuration and the same answers of the
\* recorder, the transcription, the translation service and the deadline,
\* PerformVoiceToSqlWithTimeout and RecordAndGenerateSQLWithTimeout both
\* succeed or both fail, with the same query on success and the same
\* exception on failure.
C37_ScalarAndTablePipelinesAgree ==
    v2s.pc = "done" =>
        /\ v2s.scalar.thrown = v2s.table.thrown
        /\ v2s.scalar.sql = v2s.table.sql

\* both delivered the query a"b of the body {"sql": "a\"b"}
C37_Witness ==
    /\ v2s.pc = "done" /\ v2s.answers.in_time
    /\ v2s.scalar.thrown = NoError /\ v2s.table.thrown = NoError
    /\ v2s.scalar.sql = <<"a", "\"", "b">> /\ v2s.table.sql = <<"a", "\"", "b">>
    /\ v2s.table.transcription = <<"h", "i">>

\* both failed with the timeout that names voice_query_timeout
BothTimedOut ==
    /\ v2s.pc = "done" /\ ~v2s.answers.in_time
    /\ v2s.scalar.thrown.kind = "Voice query timed out after"
    /\ v2s.table.thrown = v2s.scalar.thrown

\* the invocation followed thread by thread ends as the function
\* RecordAndGenerateSQLWithTimeout says, on the answers it met
PipelineAgreesWithFunction ==
    (pipe.pc = "done" /\ pipe.wpc = "finished") =>
        \E c \in Collaborators :
            /\ c.in_time = ~pipe.timed_out
            /\ c.recording.ok = pipe.record_ret.ok
            /\ c.recording.error = pipe.record_ret.error
            /\ (c.recording.pcm = <<>>) = (pipe.pcm_data = <<>>)
            /\ Len(pipe.log) >= 2 => c.transcription = pipe.transcription
            /\ Len(pipe.log) >= 3 =>
                  Post(pipe.config.text_to_sql_url, pipe.config.text_to_sql_timeout, c.curl) = pipe.response
            /\ LET r == RecordAndGenerateSQLWithTimeout(pipe.config, pipe.ddl, c)
               IN  /\ r.thrown = pipe.thrown
                   /\ r.sql = pipe.out_sql
                   /\ r.transcription = pipe.out_transcription

\* stage is in the log of the stages the thread has run
Ran(stage) == \E i \in 1 .. Len(pipe.log) : pipe.log[i] = stage

\* C38: an invocation that ends without a failure hands over a non-empty
\* query and a non-empty transcript; an empty transcript ends the thread with
\* 'No speech detected' and no request posted; and a success response whose
\* "sql" is the empty string or not a string ends it with 'No SQL in
\* response' and the body.
C38_SuccessMeansQueryAndTranscript ==
    /\ (pipe.pc = "done" /\ pipe.thrown = NoError) =>
          (pipe.out_sql # <<>> /\ pipe.out_transcription # <<>>)
    /\ (Ran("transcribe") /\ pipe.transcription.success /\ pipe.transcription.full_text = <<>>) =>
          /\ pipe.wpc = "finished"
          /\ pipe.exception_ptr = Err("No speech detected", "", 0, <<>>)
          /\ ~Ran("post")
    /\ (Ran("parse") /\ pipe.sent \in EmptyOrOddSqlBodies) =>
          /\ pipe.wpc = "finished"
          /\ pipe.exception_ptr = Err("Text-to-SQL proxy error: No SQL in response", "", 0,
                                      pipe.sent.text)
          /\ (pipe.pc = "done" /\ ~pipe.timed_out) => pipe.thrown = pipe.exception_ptr

\* an invocation that could have been answered an empty query has delivered
\* the query Q and the transcript hi
C38_Witness ==
    /\ pipe.pc = "done" /\ pipe.thrown = NoError /\ ~pipe.timed_out
    /\ pipe.log = <<"record", "transcribe", "post", "parse">>
    /\ pipe.out_sql = <<"Q">>
    /\ pipe.out_transcription = <<"h", "i">>

\* {"sql": ""} was answered with status 200 and the caller has the
\* missing-field failure
EmptySqlFails ==
    /\ pipe.pc = "done" /\ ~pipe.timed_out
    /\ pipe.sent.text = SqlBody(<<>>, <<>>, <<>>) /\ pipe.response.success
    /\ pipe.thrown.kind = "Text-to-SQL proxy error: No SQL in response"

\* {"sql": null} was answered with status 200 and the caller has the
\* missing-field failure
NullSqlFails ==
    /\ pipe.pc = "done" /\ ~pipe.timed_out
    /\ pipe.sent.text = SqlNotAString(<<"n", "u", "l", "l">>) /\ pipe.response.success
    /\ pipe.thrown.kind = "Text-to-SQL proxy error: No SQL in response"

\* the transcript was empty and the caller has 'No speech detected'
EmptyTranscriptFails ==
    /\ pipe.pc = "done" /\ ~pipe.timed_out
    /\ pipe.transcription.success /\ pipe.transcription.full_text = <<>>
    /\ pipe.log = <<"record", "transcribe">>
    /\ pipe.thrown.kind = "No speech detected"

\* C26: TranscribePCM makes its calls in the order GetContext,
\* whisper_is_multilingual, whisper_full: empty PCM is rejected before any of
\* them, a failed load before the other two, and a translate request on a
\* loaded model that is not multilingual fails without whisper_full called.
C26_TranslateRejectedBeforeInference ==
    tpcm.pc = "done" =>
        LET loaded == tpcm.ctx.id # 0
            ran == \E i \in 1 .. Len(tpcm.log) : tpcm.log[i] = "whisper_full"
        IN  /\ tpcm.log \in {<<>>, <<"GetContext">>,
                             <<"GetContext", "whisper_is_multilingual">>,
                             <<"GetContext", "whisper_full">>,
                             <<"GetContext", "whisper_is_multilingual", "whisper_full">>}
            /\ tpcm.pcm_data = <<>> =>
                  /\ tpcm.log = <<>>
                  /\ tpcm.result.error = Err("Empty audio data", "", 0, <<>>)
            /\ (tpcm.pcm_data # <<>> /\ ~loaded) =>
                  /\ tpcm.log = <<"GetContext">>
                  /\ ~tpcm.result.success
            /\ (loaded /\ tpcm.config.translate /\ ~tpcm.ctx.multilingual) =>
                  /\ ~ran
                  /\ ~tpcm.result.success
                  /\ tpcm.result.error = Err("Translation requires a multilingual model", "", 0, <<>>)
            /\ ran => /\ tpcm.pcm_data # <<>> /\ loaded
                      /\ tpcm.config.translate => tpcm.ctx.multilingual
            /\ tpcm.result.success => ran

\* translate asked of a loaded English-only model
C26_Witness ==
    /\ tpcm.pc = "done"
    /\ tpcm.pcm_data # <<>>
    /\ tpcm.config.translate
    /\ tpcm.ctx.id # 0 /\ ~tpcm.ctx.multilingual
    /\ tpcm.log = <<"GetContext", "whisper_is_multilingual">>
    /\ ~tpcm.result.success

\* the transport of the call answered, and the status is in 200 .. 299
TransportOk == http.curl.handle /\ http.curl.res = "CURLE_OK"
Status2xx == http.curl.status_code >= 200 /\ http.curl.status_code < 300

\* C28: Post reports success exactly when the transport succeeded and the
\* status is in 200 .. 299; another status is a failure whose error holds the
\* status code and the body if there is one; a timeout and a failure to
\* connect are failures whose errors name the timeout in seconds and the url;
\* every failure has success false and an error.
C28_PostSuccessIffTransportAnd2xx ==
    http.pc = "done" =>
        /\ http.response.success <=> (TransportOk /\ Status2xx)
        /\ http.response.success => http.response.error = NoError
        /\ ~http.response.success => http.response.error # NoError
        /\ (TransportOk /\ ~Status2xx) =>
              /\ http.response.error.kind = "Text-to-SQL proxy error: HTTP"
              /\ http.response.error.num = http.curl.status_code
              /\ http.response.error.body = http.curl.sent.text
        /\ (http.curl.handle /\ http.curl.res = "CURLE_OPERATION_TIMEDOUT") =>
              http.response.error = Err("Request timed out after", "", http.timeout_seconds, <<>>)
        /\ (http.curl.handle /\ http.curl.res = "CURLE_COULDNT_CONNECT") =>
              http.response.error = Err("Cannot connect to text-to-sql proxy at", http.url, 0, <<>>)

\* the proxy answered 300 with a body
C28_Witness ==
    /\ http.pc = "done"
    /\ TransportOk
    /\ http.curl.status_code = 300
    /\ http.curl.sent.text # <<>>
    /\ ~http.response.success
    /\ http.response.error.body = http.curl.sent.text

\* C29: in a call of RecordUntilSilence, on a recorder that ran a session
\* before or not, had_sound is true only once a chunk with an RMS above the
\* threshold was delivered during the call: so a sample louder than the
\* threshold is among the samples delivered since the call started.
C29_SoundOnlyFromCurrentCall ==
    (rus.pc \in {"loop", "sleep", "stop"} /\ rus.had_sound) =>
        \E i \in 1 .. Len(obs.delivered) :
            AmpScale * obs.delivered[i] * obs.delivered[i] > rus.silence_threshold

\* the first poll of a second call found sound although no chunk had been
\* delivered since the call started
C29_Witness ==
    /\ ~obs.run.fresh
    /\ obs.run.polls = 1
    /\ rus.had_sound
    /\ obs.delivered = <<>>

====
